---- MODULE Spec2Model ----
(***************************************************************************)
(* Verification model of the VoiceSocialAI command engine:                 *)
(*   - services/command_processor.py  (classification, slot extraction,    *)
(*     dispatch),                                                          *)
(*   - services/gemini_service.py, services/text_ai_service.py,            *)
(*     services/multi_ai_service.py   (provider fallback chains),          *)
(*   - services/facebook_service.py, services/voice_service.py.            *)
(* Command texts are TLA+ strings handled character by character, the way  *)
(* Python's `in`, str.split, str.strip and the re module handle them.      *)
(***************************************************************************)
EXTENDS Integers, Sequences, FiniteSets, TLC

VARIABLES
    textIn,        \* input of the pure text functions (raw command text)
    textOp,        \* the text function applied last
    textOut,       \* its result
    env,           \* os.environ: the API keys that are set
    providerKeys,  \* MultiAIService.providers: the providers whose api_key is non-empty
    geminiClient,  \* GeminiService.client is not None
    updated,       \* the keys update_config has set since the services were constructed
    current_provider, \* MultiAIService.current_provider
    net,           \* how each provider endpoint answers a request
    chain,         \* the fallback chain invoked, "idle" before
    arg,           \* its argument (content type or provider), "" if none
    calls,         \* the requests issued by the invocation, in order
    res,           \* what the invocation returned
    pc,            \* where process_command stands
    command_in,    \* the value process_command was called with
    command_text,  \* its normalised command text
    command_log,   \* the CommandHistory row of the command
    result,        \* the result it returns
    raised,        \* an exception left process_command
    spoken,        \* the text handed to the speech thread
    playback,      \* the speech thread: "none", "running", "finished" or "failed"
    published,     \* the posts published on Facebook
    posts,         \* the SocialMediaPost rows
    service,       \* EmailService.service is not None
    unread,        \* the emails of the mailbox that carry the UNREAD label
    pass,          \* per auto-reply pass: where it stands, its batch, its outcomes
    autoReplyLog,  \* the AutoReplyLog rows
    delivered,     \* the replies that reached their recipient
    attempted,     \* the send attempts that have returned
    hash_order,    \* the order in which this interpreter iterates a set of strings
    request,       \* the arguments of the generate_content calls
    stub,          \* the stub provider: a prompt and the text it answers it with
    now,           \* datetime.utcnow()
    generated      \* the results of the generate_content calls so far

textVars == <<textIn, textOp, textOut>>
credVars == <<env, providerKeys, geminiClient, updated, current_provider>>
chainVars == <<net, chain, arg, calls, res>>
cmdVars == <<pc, command_in, command_text, command_log, result, raised, spoken, playback, published, posts>>
replyVars == <<service, unread, pass, autoReplyLog, delivered, attempted>>
contentVars == <<hash_order, request, stub, now, generated>>
vars == <<textIn, textOp, textOut, env, providerKeys, geminiClient, updated, current_provider, net, chain, arg, calls, res,
          pc, command_in, command_text, command_log, result, raised, spoken, playback, published, posts,
          service, unread, pass, autoReplyLog, delivered, attempted,
          hash_order, request, stub, now, generated>>

(***************************************************************************)
(* Strings                                                                 *)
(***************************************************************************)
Ch(t, i) == SubSeq(t, i, i)

From(t, i) == SubSeq(t, i, Len(t))

\* the literal k occurs in t starting at index i
IsAt(t, k, i) == i >= 1 /\ i + Len(k) - 1 <= Len(t) /\ SubSeq(t, i, i + Len(k) - 1) = k

\* Python: t.find(k, from) with 1-based indices, 0 when absent
RECURSIVE Find(_, _, _)
Find(t, k, from) ==
    IF from + Len(k) - 1 > Len(t) THEN 0
    ELSE IF SubSeq(t, from, from + Len(k) - 1) = k THEN from
    ELSE Find(t, k, from + 1)

\* Python: k in t
In(k, t) == Find(t, k, 1) # 0

UpperAlpha == "ABCDEFGHIJKLMNOPQRSTUVWXYZ"

LowerAlpha == "abcdefghijklmnopqrstuvwxyz"

UpperSet == {Ch(UpperAlpha, i) : i \in 1..Len(UpperAlpha)}

LowerChar(c) ==
    IF c \in UpperSet THEN Ch(LowerAlpha, Find(UpperAlpha, c, 1)) ELSE c

RECURSIVE LowerFrom(_, _)
LowerFrom(t, i) == IF i > Len(t) THEN "" ELSE LowerChar(Ch(t, i)) \o LowerFrom(t, i + 1)

\* Python: t.lower()
Lower(t) == LowerFrom(t, 1)

\* Python: str.isspace / the regex class \s, for the blank and the newline
IsSpace(c) == c = " " \/ c = "\n"

\* number of whitespace characters of t starting at index i
RECURSIVE SpacesAt(_, _)
SpacesAt(t, i) == IF i <= Len(t) /\ IsSpace(Ch(t, i)) THEN 1 + SpacesAt(t, i + 1) ELSE 0

\* number of whitespace characters of t ending at index i
RECURSIVE SpacesBefore(_, _)
SpacesBefore(t, i) == IF i >= 1 /\ IsSpace(Ch(t, i)) THEN 1 + SpacesBefore(t, i - 1) ELSE 0

\* Python: t.strip()
Strip(t) ==
    LET a == SpacesAt(t, 1) IN
    IF a = Len(t) THEN "" ELSE SubSeq(t, a + 1, Len(t) - SpacesBefore(t, Len(t)))

\* Python: ' '.join(t.split())
RECURSIVE SquashFrom(_, _, _)
SquashFrom(t, i, acc) ==
    IF i > Len(t) THEN acc
    ELSE IF IsSpace(Ch(t, i))
         THEN LET n == SpacesAt(t, i) IN
              IF acc = "" \/ i + n > Len(t) THEN SquashFrom(t, i + n, acc)
              ELSE SquashFrom(t, i + n, acc \o " ")
         ELSE SquashFrom(t, i + 1, acc \o Ch(t, i))

JoinSplit(t) == SquashFrom(t, 1, "")

\* Python's None against a str value
None == [present |-> FALSE, text |-> ""]

Str(s) == [present |-> TRUE, text |-> s]

\* Python: not v
Falsy(v) == ~v.present \/ v.text = ""

(***************************************************************************)
(* Intent classifier: CommandProcessor.classify_and_execute_command        *)
(***************************************************************************)
\* the keywords compared with the whole command
AnyIs(ks, t) == t \in ks

\* Python: any(keyword in t for keyword in ks)
AnyIn(ks, t) == \E k \in ks : In(k, t)

Intents == {"facebook_post", "create_image", "text_generation",
            "system_status", "auto_reply_status", "general_query"}

\* classify_and_execute_command with the text-generation test moved to the front
classify_text_first(t) ==
    IF AnyIn({"write", "blog", "article", "content", "reply", "email"}, t) THEN "text_generation"
    ELSE IF AnyIn({"facebook", "post", "share"}, t) THEN "facebook_post"
    ELSE IF AnyIn({"image", "picture", "generate", "create image"}, t) THEN "create_image"
    ELSE IF AnyIn({"status", "how are you", "system"}, t) THEN "system_status"
    ELSE IF AnyIn({"auto reply", "email", "whatsapp", "messages"}, t) THEN "auto_reply_status"
    ELSE "general_query"

\* the handler the if/elif chain of classify_and_execute_command calls
classify_and_execute_command(t) ==
    IF AnyIn({"facebook", "post", "share"}, t) THEN "facebook_post"
    ELSE IF AnyIn({"image", "picture", "generate", "create image"}, t) THEN "create_image"
    ELSE IF AnyIn({"write", "blog", "article", "content", "reply", "email"}, t) THEN "text_generation"
    ELSE IF AnyIn({"status", "how are you", "system"}, t) THEN "system_status"
    ELSE IF AnyIn({"auto reply", "email", "whatsapp", "messages"}, t) THEN "auto_reply_status"
    ELSE "general_query"

(***************************************************************************)
(* Slot extractor: CommandProcessor.extract_topic_from_command             *)
(***************************************************************************)
\* patterns whose generate/create patterns swallow a leading article
patterns_article(command_type) ==
    IF command_type = "post"
    THEN << <<"post about ">>,
            <<"create", "post", "about ">>,
            <<"facebook", "about ">>,
            <<"share ">>,
            <<"post ">> >>
    ELSE IF command_type = "image"
    THEN << <<"generate", "image", "of ">>,
            <<"create", "image", "of ">>,
            <<"make", "picture", "of ">>,
            <<"image of ">>,
            <<"picture of ">>,
            <<"generate a ">>,
            <<"create a ">> >>
    ELSE << >>

\* A phase-1 pattern  l1.*l2.* ... ln(.+)  is the sequence <<l1, ..., ln>>
\* of its literals (the last one carries the blank before the group).
patterns(command_type) ==
    IF command_type = "post"
    THEN << <<"post about ">>,
            <<"create", "post", "about ">>,
            <<"facebook", "about ">>,
            <<"share ">>,
            <<"post ">> >>
    ELSE IF command_type = "image"
    THEN << <<"generate", "image", "of ">>,
            <<"create", "image", "of ">>,
            <<"make", "picture", "of ">>,
            <<"image of ">>,
            <<"picture of ">>,
            <<"generate ">>,
            <<"create ">> >>
    ELSE << >>

keywords(command_type) ==
    IF command_type = "post" THEN <<"post", "about", "facebook">>
    ELSE IF command_type = "image" THEN <<"image", "picture", "generate", "create">>
    ELSE << >>

\* index after the leftmost placement of lits[j..n] at or after from, 0 if none
RECURSIVE Place(_, _, _, _, _)
Place(t, lits, j, n, from) ==
    IF j > n THEN from
    ELSE LET i == Find(t, lits[j], from) IN
         IF i = 0 THEN 0 ELSE Place(t, lits, j + 1, n, i + Len(lits[j]))

\* Python: re.search(pattern, t); the result is group(1), None without a match.
\* The match starts at the leftmost l1; every .* is greedy, so the group
\* starts after the last ln that leaves at least one character for (.+).
re_search_line(lits, t) ==
    LET n    == Len(lits)
        last == lits[n]
        p    == IF n = 1 THEN 1 ELSE Place(t, lits, 1, n - 1, 1)
        K    == IF p = 0 THEN {}
                ELSE {i \in p..Len(t) : IsAt(t, last, i) /\ i + Len(last) <= Len(t)}
        k    == IF n = 1 THEN CHOOSE i \in K : \A j \in K : i <= j
                ELSE CHOOSE i \in K : \A j \in K : i >= j
    IN  IF K = {} THEN None ELSE Str(From(t, k + Len(last)))

\* `.` does not match a newline (the patterns are compiled without DOTALL),
\* so a match lies within one line and the group ends where its line ends:
\* the leftmost match is the match of the first line that has one.
RECURSIVE re_search(_, _)
re_search(lits, t) ==
    LET nl   == Find(t, "\n", 1)
        line == IF nl = 0 THEN t ELSE SubSeq(t, 1, nl - 1)
        m    == re_search_line(lits, line)
    IN  IF m.present \/ nl = 0 THEN m ELSE re_search(lits, From(t, nl + 1))

\* Python: re.sub(r'^(of|about|on|for)\s+', '', topic)
RECURSIVE StripStopWord(_, _, _)
StripStopWord(topic, words, j) ==
    IF j > Len(words) THEN topic
    ELSE LET w == words[j]
             n == SpacesAt(topic, Len(w) + 1)
         IN  IF IsAt(topic, w, 1) /\ n >= 1
             THEN From(topic, Len(w) + n + 1)
             ELSE StripStopWord(topic, words, j + 1)

\* phase 1: for pattern in patterns[command_type]: first match returns
RECURSIVE Phase1(_, _, _)
Phase1(t, pats, j) ==
    IF j > Len(pats) THEN None
    ELSE LET m == re_search(pats[j], t) IN
         IF m.present THEN Str(Strip(m.text)) ELSE Phase1(t, pats, j + 1)

\* phase 2: for keyword in keywords[command_type]: first non-empty remainder
RECURSIVE Phase2(_, _, _)
Phase2(t, kws, j) ==
    IF j > Len(kws) THEN None
    ELSE LET i     == Find(t, kws[j], 1)
             topic == StripStopWord(Strip(From(t, i + Len(kws[j]))),
                                    <<"of", "about", "on", "for">>, 1)
         IN  IF i # 0 /\ topic # "" THEN Str(topic) ELSE Phase2(t, kws, j + 1)

extract_topic_from_command(t, command_type) ==
    LET m == Phase1(t, patterns(command_type), 1) IN
    IF m.present THEN m ELSE Phase2(t, keywords(command_type), 1)

(***************************************************************************)
(* Text generation slots: process_text_generation, extract_text_topic      *)
(***************************************************************************)
\* the selection with the words of the command as the type
ContentTypeOfWord(t) ==
    IF In("blog", t) \/ In("article", t) THEN "blog"
    ELSE IF In("email", t) \/ In("reply", t) THEN "email"
    ELSE IF In("story", t) THEN "story"
    ELSE IF In("review", t) THEN "review"
    ELSE IF In("tutorial", t) \/ In("guide", t) THEN "tutorial"
    ELSE IF In("product", t) THEN "product"
    ELSE IF In("news", t) THEN "news"
    ELSE "social_post"

\* the content sub-type chosen by process_text_generation
ContentTypeOf(t) ==
    IF In("blog", t) \/ In("article", t) THEN "blog_article"
    ELSE IF In("email", t) \/ In("reply", t) THEN "email_reply"
    ELSE IF In("story", t) THEN "creative_story"
    ELSE IF In("review", t) THEN "review"
    ELSE IF In("tutorial", t) \/ In("guide", t) THEN "tutorial"
    ELSE IF In("product", t) THEN "product_description"
    ELSE IF In("news", t) THEN "news_article"
    ELSE "social_post"

\* content_type.replace('_', r'\s*') as the two literals around the \s*
TypeWords(content_type) ==
    LET u == Find(content_type, "_", 1) IN
    IF u = 0 THEN <<content_type, "">>
    ELSE <<SubSeq(content_type, 1, u - 1), From(content_type, u + 1)>>

\* the regular expressions of patterns_to_remove, in order:
\*   verb  : lit\s+(a|an)?\s*     words : w1\s*w2     trail : lit\s*
patterns_to_remove(content_type) ==
    << [kind |-> "verb",  a |-> "write",    b |-> ""],
       [kind |-> "verb",  a |-> "create",   b |-> ""],
       [kind |-> "verb",  a |-> "generate", b |-> ""],
       [kind |-> "verb",  a |-> "make",     b |-> ""],
       [kind |-> "words", a |-> TypeWords(content_type)[1], b |-> TypeWords(content_type)[2]],
       [kind |-> "trail", a |-> "about",    b |-> ""],
       [kind |-> "trail", a |-> "for",      b |-> ""],
       [kind |-> "trail", a |-> "on",       b |-> ""] >>

\* length of the match of pattern p that starts at index i of t, 0 if none.
\* In (a|an)? the alternative "a" is tried first and nothing after it can
\* fail, so "an" is never taken.
MatchLen(t, i, p) ==
    IF ~IsAt(t, p.a, i) THEN 0
    ELSE LET e == i + Len(p.a) IN
         IF p.kind = "verb"
         THEN LET n1  == SpacesAt(t, e)
                  art == IF IsAt(t, "a", e + n1) THEN 1 ELSE 0
              IN  IF n1 = 0 THEN 0
                  ELSE Len(p.a) + n1 + art + SpacesAt(t, e + n1 + art)
         ELSE IF p.kind = "words"
         THEN IF p.b = "" THEN Len(p.a)
              ELSE LET n == SpacesAt(t, e) IN
                   IF IsAt(t, p.b, e + n) THEN Len(p.a) + n + Len(p.b) ELSE 0
         ELSE Len(p.a) + SpacesAt(t, e)

\* Python: re.sub(pattern, ' ', t)
RECURSIVE re_sub(_, _, _, _)
re_sub(p, t, i, acc) ==
    IF i > Len(t) THEN acc
    ELSE LET n == MatchLen(t, i, p) IN
         IF n > 0 THEN re_sub(p, t, i + n, acc \o " ")
         ELSE re_sub(p, t, i + 1, acc \o Ch(t, i))

RECURSIVE RemoveAll(_, _, _)
RemoveAll(t, pats, j) ==
    IF j > Len(pats) THEN t ELSE RemoveAll(re_sub(pats[j], t, 1, ""), pats, j + 1)

MinTopicLen == 2

extract_text_topic(t, content_type) ==
    LET topic == JoinSplit(RemoveAll(Lower(t), patterns_to_remove(content_type), 1)) IN
    IF Len(topic) > MinTopicLen THEN Str(topic) ELSE None

(***************************************************************************)
(* Providers, credentials and transports                                   *)
(***************************************************************************)
Keys == {"GEMINI_API_KEY", "OPENAI_API_KEY", "HUGGINGFACE_API_KEY", "AIML_API_KEY",
         "DEEPAI_API_KEY", "REPLICATE_API_KEY", "OPENROUTER_API_KEY",
         "DEEPSEEK_API_KEY", "TOGETHER_API_KEY"}

\* one endpoint per (service, provider, model) a request is sent to
HFTextModels == <<"gs.huggingface.DialoGPT-medium", "gs.huggingface.blenderbot",
                  "gs.huggingface.flan-t5">>

HFImageModels == <<"gs.huggingface.sd-2-1", "gs.huggingface.sd-v1-5", "gs.huggingface.sd-v1-4">>

MultiHFImageModels == <<"multi.huggingface.image_xl", "multi.huggingface.flux",
                        "multi.huggingface.image">>

Range(f) == {f[i] : i \in DOMAIN f}

Endpoints ==
    {"text_ai.gemini", "text_ai.openai", "text_ai.huggingface", "text_ai.aiml",
     "gs.gemini", "gs.aiml", "gs.gemini_image", "gs.deepai", "gs.replicate",
     "multi.openrouter", "multi.deepseek", "multi.huggingface", "multi.together",
     "multi.openrouter_image", "multi.together_image"}
    \cup Range(HFTextModels) \cup Range(HFImageModels) \cup Range(MultiHFImageModels)

\* the provider (remote service) behind an endpoint: the name between the dots
ProviderName(e) ==
    LET a    == Find(e, ".", 1)
        rest == From(e, a + 1)
        b    == Find(rest, ".", 1)
        name == IF b = 0 THEN rest ELSE SubSeq(rest, 1, b - 1)
        u    == Find(name, "_", 1)
    IN  IF u = 0 THEN name ELSE SubSeq(name, 1, u - 1)

ProviderTable == [e \in Endpoints |-> ProviderName(e)]

ProviderOf(e) == ProviderTable[e]

\* "ok": HTTP success with content; "fail": error status or empty content;
\* "raise": the transport raises (timeout, connection error, malformed body)
Outcomes == {"ok", "fail", "raise"}

Apology ==
    "I'm currently unable to generate a response. Please check your AI API keys in settings or try again later."

Text(e) == [shape |-> "str", payload |-> e]

Tuple(ok, x) == [shape |-> "tuple", success |-> ok, payload |-> x]

NoResult == [shape |-> "none", payload |-> ""]

\* for model in models: request; first 200 with content returns, except: continue
RECURSIVE TryModels(_, _, _)
TryModels(models, j, n) ==
    IF j > Len(models) THEN [hit |-> "", calls |-> <<>>]
    ELSE IF n[models[j]] = "ok" THEN [hit |-> models[j], calls |-> <<models[j]>>]
    ELSE LET r == TryModels(models, j + 1, n) IN
         [hit |-> r.hit, calls |-> <<models[j]>> \o r.calls]

(***************************************************************************)
(* services/gemini_service.py                                              *)
(***************************************************************************)
\* _try_huggingface_text running its model loop a second time after a miss
try_huggingface_text_again(e, n) ==
    IF "HUGGINGFACE_API_KEY" \notin e THEN [ret |-> None, calls |-> <<>>]
    ELSE LET r == TryModels(HFTextModels, 1, n) IN
         [ret |-> IF r.hit = "" THEN None ELSE Str(r.hit),
          calls |-> IF r.hit = "" THEN r.calls \o r.calls ELSE r.calls]

\* GeminiService._try_huggingface_text: the text, or None
try_huggingface_text(e, n) ==
    IF "HUGGINGFACE_API_KEY" \notin e THEN [ret |-> None, calls |-> <<>>]
    ELSE LET r == TryModels(HFTextModels, 1, n) IN
         [ret |-> IF r.hit = "" THEN None ELSE Str(r.hit), calls |-> r.calls]

\* _try_aiml_text without the test of the key
try_aiml_text_nokey(e, n) ==
    [ret |-> IF n["gs.aiml"] = "ok" THEN Str("gs.aiml") ELSE None, calls |-> <<"gs.aiml">>]

\* GeminiService._try_aiml_text: the text, or None
try_aiml_text(e, n) ==
    IF "AIML_API_KEY" \notin e THEN [ret |-> None, calls |-> <<>>]
    ELSE [ret |-> IF n["gs.aiml"] = "ok" THEN Str("gs.aiml") ELSE None,
          calls |-> <<"gs.aiml">>]

\* GeminiService.generate_text_response: a str, the apology when all fail
generate_text_response(client, e, n) ==
    LET c0 == IF client THEN <<"gs.gemini">> ELSE <<>>
        hf == try_huggingface_text(e, n)
        am == try_aiml_text(e, n)
    IN  IF client /\ n["gs.gemini"] = "ok"
        THEN [ret |-> Text("gs.gemini"), calls |-> c0, raised |-> FALSE]
        ELSE IF ~Falsy(hf.ret)
        THEN [ret |-> Text(hf.ret.text), calls |-> c0 \o hf.calls, raised |-> FALSE]
        ELSE IF ~Falsy(am.ret)
        THEN [ret |-> Text(am.ret.text), calls |-> c0 \o hf.calls \o am.calls, raised |-> FALSE]
        ELSE [ret |-> Text(Apology), calls |-> c0 \o hf.calls \o am.calls, raised |-> FALSE]

\* GeminiService._try_gemini_image (called only with a client)
try_gemini_image(n) ==
    [ret |-> Tuple(n["gs.gemini_image"] = "ok", "gs.gemini_image"),
     calls |-> <<"gs.gemini_image">>]

\* GeminiService._try_deepai_image
try_deepai_image(e, n) ==
    IF "DEEPAI_API_KEY" \notin e THEN [ret |-> Tuple(FALSE, "no key"), calls |-> <<>>]
    ELSE [ret |-> Tuple(n["gs.deepai"] = "ok", "gs.deepai"), calls |-> <<"gs.deepai">>]

\* GeminiService._try_huggingface_image
try_huggingface_image(e, n) ==
    IF "HUGGINGFACE_API_KEY" \notin e THEN [ret |-> Tuple(FALSE, "no key"), calls |-> <<>>]
    ELSE LET r == TryModels(HFImageModels, 1, n) IN
         [ret |-> Tuple(r.hit # "", r.hit), calls |-> r.calls]

\* GeminiService._try_replicate_image: polling is not implemented, so even
\* an accepted prediction is reported as a failure
try_replicate_image(e, n) ==
    IF "REPLICATE_API_KEY" \notin e THEN [ret |-> Tuple(FALSE, "no key"), calls |-> <<>>]
    ELSE [ret |-> Tuple(FALSE, "gs.replicate"), calls |-> <<"gs.replicate">>]

AllImageFailed == "All image generation services failed"

\* GeminiService.generate_image: (success, message)
GeminiService_generate_image(client, e, n) ==
    LET g  == IF client THEN try_gemini_image(n)
              ELSE [ret |-> Tuple(FALSE, "no client"), calls |-> <<>>]
        d  == try_deepai_image(e, n)
        hf == try_huggingface_image(e, n)
        rp == try_replicate_image(e, n)
    IN  IF g.ret.success THEN [ret |-> g.ret, calls |-> g.calls, raised |-> FALSE]
        ELSE IF d.ret.success THEN [ret |-> d.ret, calls |-> g.calls \o d.calls, raised |-> FALSE]
        ELSE IF hf.ret.success
        THEN [ret |-> hf.ret, calls |-> g.calls \o d.calls \o hf.calls, raised |-> FALSE]
        ELSE IF rp.ret.success
        THEN [ret |-> rp.ret, calls |-> g.calls \o d.calls \o hf.calls \o rp.calls, raised |-> FALSE]
        ELSE [ret |-> Tuple(FALSE, AllImageFailed),
              calls |-> g.calls \o d.calls \o hf.calls \o rp.calls, raised |-> FALSE]

(***************************************************************************)
(* services/text_ai_service.py                                             *)
(***************************************************************************)
content_templates == {"social_post", "blog_article", "email_reply", "product_description",
                      "news_article", "creative_story", "tutorial", "review"}

provider_order == <<"gemini", "openai", "huggingface", "aiml">>

TextAIKey(provider) ==
    IF provider = "gemini" THEN "GEMINI_API_KEY"
    ELSE IF provider = "openai" THEN "OPENAI_API_KEY"
    ELSE IF provider = "huggingface" THEN "HUGGINGFACE_API_KEY"
    ELSE IF provider = "aiml" THEN "AIML_API_KEY"
    ELSE ""

\* TextAIService._is_provider_available
is_provider_available(provider, e) == TextAIKey(provider) \in e

\* TextAIService._use_gemini/_use_openai/_use_huggingface/_use_aiml: the
\* content or None; every exception is caught inside and gives None
use_provider(provider, e, n) ==
    LET ep == "text_ai." \o provider IN
    IF TextAIKey(provider) \notin e THEN [ret |-> None, calls |-> <<>>]
    ELSE [ret |-> IF n[ep] = "ok" THEN Str(ep) ELSE None, calls |-> <<ep>>]

Dict(ok, provider, x) == [shape |-> "dict", success |-> ok, provider |-> provider, payload |-> x]

AllProvidersFailed == "All AI providers failed or are unavailable"

\* the for loop of generate_content from provider_order[j] on
RECURSIVE ContentLoop(_, _, _)
ContentLoop(j, e, n) ==
    IF j > Len(provider_order)
    THEN [ret |-> Dict(FALSE, "", AllProvidersFailed), calls |-> <<>>, raised |-> FALSE]
    ELSE IF ~is_provider_available(provider_order[j], e) THEN ContentLoop(j + 1, e, n)
    ELSE LET u == use_provider(provider_order[j], e, n) IN
         IF ~Falsy(u.ret)
         THEN [ret |-> Dict(TRUE, provider_order[j], u.ret.text), calls |-> u.calls,
               raised |-> FALSE]
         ELSE LET r == ContentLoop(j + 1, e, n) IN [r EXCEPT !.calls = u.calls \o r.calls]

\* generate_content going to the providers whatever the content type
generate_content_unchecked(content_type, e, n) == ContentLoop(1, e, n)

\* TextAIService.generate_content
generate_content(content_type, e, n) ==
    IF content_type \notin content_templates
    THEN [ret |-> Dict(FALSE, "", "Unsupported content type"), calls |-> <<>>, raised |-> FALSE]
    ELSE ContentLoop(1, e, n)

(***************************************************************************)
(* services/multi_ai_service.py                                            *)
(***************************************************************************)
\* MultiAIService._initialize_providers: registry, capabilities, key variables
Providers == {"openrouter", "deepseek", "huggingface", "gemini", "together"}

capabilities(provider) ==
    IF provider = "openrouter" THEN {"text", "code", "reasoning", "image"}
    ELSE IF provider = "deepseek" THEN {"text", "code", "reasoning", "math"}
    ELSE IF provider = "huggingface" THEN {"text", "image", "translation", "audio"}
    ELSE IF provider = "gemini" THEN {"text", "image", "vision", "multimodal"}
    ELSE IF provider = "together" THEN {"text", "code", "image"}
    ELSE {}

ProviderKey(provider) ==
    IF provider = "openrouter" THEN "OPENROUTER_API_KEY"
    ELSE IF provider = "deepseek" THEN "DEEPSEEK_API_KEY"
    ELSE IF provider = "huggingface" THEN "HUGGINGFACE_API_KEY"
    ELSE IF provider = "gemini" THEN "GEMINI_API_KEY"
    ELSE IF provider = "together" THEN "TOGETHER_API_KEY"
    ELSE ""

\* MultiAIService.__init__: self.current_provider = 'openrouter'
DefaultProvider == "openrouter"

\* the api_key fields as read from the environment at construction
initialize_providers(e) == {p \in Providers : ProviderKey(p) \in e}

text_providers_to_try == <<"openrouter", "deepseek", "gemini", "huggingface">>

image_providers_to_try == <<"huggingface", "openrouter", "together", "gemini">>

\* a single HTTP request of a _call_*_text/_call_*_image method:
\* (True, content), (False, error) or an exception
Request(ep, n) ==
    [status |-> n[ep], ret |-> Tuple(n[ep] = "ok", ep), calls |-> <<ep>>]

\* MultiAIService._call_gemini_text: whatever generate_text_response returns
\* is handed on as (True, result)
call_gemini_text(client, e, n) ==
    LET r == generate_text_response(client, e, n) IN
    IF r.raised THEN [status |-> "fail", ret |-> Tuple(FALSE, "Gemini API error"), calls |-> r.calls]
    ELSE [status |-> "ok", ret |-> Tuple(TRUE, r.ret.payload), calls |-> r.calls]

\* MultiAIService._call_text_api
call_text_api(provider, client, e, n) ==
    IF provider = "gemini" THEN call_gemini_text(client, e, n)
    ELSE Request("multi." \o provider, n)

AllTextFailed == "All AI providers failed to generate text response."

\* the for loop of generate_text from providers_to_try[j] on
RECURSIVE TextLoop(_, _, _, _, _, _)
TextLoop(order, j, keys, client, e, n) ==
    IF j > Len(order) THEN [ret |-> Tuple(FALSE, AllTextFailed), calls |-> <<>>, raised |-> FALSE]
    ELSE IF order[j] \notin Providers THEN TextLoop(order, j + 1, keys, client, e, n)
    ELSE IF order[j] \notin keys \/ "text" \notin capabilities(order[j])
    THEN TextLoop(order, j + 1, keys, client, e, n)
    ELSE LET c    == call_text_api(order[j], client, e, n)
             r    == TextLoop(order, j + 1, keys, client, e, n)
             next == [r EXCEPT !.calls = c.calls \o r.calls]
         IN  IF c.status = "raise" THEN next          \* except Exception: continue
             ELSE IF c.ret.success THEN [ret |-> c.ret, calls |-> c.calls, raised |-> FALSE]
             ELSE next

\* MultiAIService.generate_text(prompt, provider): provider "" stands for None
MultiAI_generate_text(provider, keys, client, e, n) ==
    TextLoop(IF provider = "" THEN text_providers_to_try ELSE <<provider>>, 1, keys, client, e, n)

\* MultiAIService._call_huggingface_image: one request per model, the
\* exceptions are caught per model
call_huggingface_image(n) ==
    LET r == TryModels(MultiHFImageModels, 1, n) IN
    [status |-> IF r.hit = "" THEN "fail" ELSE "ok", ret |-> Tuple(r.hit # "", r.hit),
     calls |-> r.calls]

\* MultiAIService._call_gemini_image
call_gemini_image(client, e, n) ==
    LET r == GeminiService_generate_image(client, e, n) IN
    IF r.raised THEN [status |-> "fail", ret |-> Tuple(FALSE, "Gemini image error"), calls |-> r.calls]
    ELSE [status |-> IF r.ret.success THEN "ok" ELSE "fail", ret |-> r.ret, calls |-> r.calls]

\* MultiAIService._call_image_api
call_image_api(provider, client, e, n) ==
    IF provider = "huggingface" THEN call_huggingface_image(n)
    ELSE IF provider = "gemini" THEN call_gemini_image(client, e, n)
    ELSE IF provider \in {"openrouter", "together"} THEN Request("multi." \o provider \o "_image", n)
    ELSE [status |-> "fail", ret |-> Tuple(FALSE, "not implemented"), calls |-> <<>>]

AllMultiImageFailed == "All image generation providers failed."

\* the for loop of generate_image from providers_to_try[j] on
RECURSIVE ImageLoop(_, _, _, _, _, _)
ImageLoop(order, j, keys, client, e, n) ==
    IF j > Len(order)
    THEN [ret |-> Tuple(FALSE, AllMultiImageFailed), calls |-> <<>>, raised |-> FALSE]
    ELSE IF order[j] \notin Providers THEN ImageLoop(order, j + 1, keys, client, e, n)
    ELSE IF order[j] \notin keys \/ "image" \notin capabilities(order[j])
    THEN ImageLoop(order, j + 1, keys, client, e, n)
    ELSE LET c    == call_image_api(order[j], client, e, n)
             r    == ImageLoop(order, j + 1, keys, client, e, n)
             next == [r EXCEPT !.calls = c.calls \o r.calls]
         IN  IF c.status = "raise" THEN next          \* except Exception: continue
             ELSE IF c.ret.success THEN [ret |-> c.ret, calls |-> c.calls, raised |-> FALSE]
             ELSE next

\* MultiAIService.generate_image(prompt, image_path, provider)
MultiAI_generate_image(provider, keys, client, e, n) ==
    ImageLoop(IF provider = "" THEN image_providers_to_try ELSE <<provider>>, 1, keys, client, e, n)

(***************************************************************************)
(* Command texts                                                           *)
(***************************************************************************)
TextMaxPhrases == 2

Atoms == {"Post", "share", "facebook", "about", "cats", "python",
          "write a blog about", "write a", "generate a", "sunset over mountains",
          "image of", "picture", "create image", "email", "status", "system",
          "whatsapp", "auto reply", "messages", "how are you", "hello",
          "story", "content", "review", "guide", "product", "news",
          " \ncats"}

RECURSIVE Phrases(_)
Phrases(n) ==
    IF n <= 1 THEN Atoms
    ELSE Phrases(n - 1) \cup {p \o " " \o a : p \in Phrases(n - 1), a \in Atoms}

\* what a caller hands to process_command: any case, possibly padded
RawCommands == {" " \o p \o " " : p \in Phrases(TextMaxPhrases)}

\* process_command: command_text.lower().strip()
normalize(raw) == Strip(Lower(raw))

NoSlots == [intent |-> "", content_type |-> "", topic |-> None]

(***************************************************************************)
(* services/facebook_service.py                                            *)
(***************************************************************************)
FallbackPost == "fallback_posts"

\* GeminiService.generate_facebook_post: the generated text, or one of the
\* canned posts when generate_text_response gave its apology
generate_facebook_post(client, e, n) ==
    LET r == generate_text_response(client, e, n) IN
    [content |-> IF r.ret.payload # "" /\ r.ret.payload # Apology THEN r.ret.payload
                 ELSE FallbackPost,
     calls |-> r.calls]

\* the Graph API publishes the post ("ok"), or answers with an error or the
\* request raises ("fail"): both give (False, None, "Error: ...")
PublishOutcomes == {"ok", "fail"}

NoPost == [success |-> FALSE, error |-> "", image_path |-> FALSE, calls |-> << >>,
           published |-> << >>, posts |-> << >>]

\* FacebookService.create_post_with_ai_content.  mk: os.makedirs succeeds;
\* pub: how the Graph API answers the publish; dbok: the SocialMediaPost row
\* is committed.  image_path is set as soon as an image was asked for.
create_post_with_ai_content(include_image, client, e, n, mk, pub, dbok) ==
    LET gp   == generate_facebook_post(client, e, n)
        img  == GeminiService_generate_image(client, e, n)
        kind == IF include_image /\ img.ret.success THEN "photo" ELSE "text"
        cs   == IF include_image THEN gp.calls \o img.calls ELSE gp.calls
        sent == [kind |-> kind, content |-> gp.content]
    IN  IF include_image /\ ~mk
        THEN [NoPost EXCEPT !.error = "Error: makedirs", !.calls = gp.calls]
        ELSE IF pub # "ok"
        THEN [NoPost EXCEPT !.error = "Error: publish", !.calls = cs]
        ELSE IF ~dbok
        THEN [NoPost EXCEPT !.error = "Error: commit", !.calls = cs, !.published = <<sent>>]
        ELSE [success |-> TRUE, error |-> "", image_path |-> include_image, calls |-> cs,
              published |-> <<sent>>,
              posts |-> <<[platform |-> "facebook", content |-> gp.content,
                           image_path |-> include_image, status |-> "posted"]>>]

(***************************************************************************)
(* services/command_processor.py: the handlers                             *)
(***************************************************************************)
Result(ok, message, command_type, data, image_path) ==
    [success |-> ok, message |-> message, command_type |-> command_type,
     data |-> data, image_path |-> image_path]

Handled(r, cs, pub, rows) == [result |-> r, calls |-> cs, published |-> pub, posts |-> rows]

\* content_type.replace('_', ' ')
Spaced(content_type) ==
    LET w == TypeWords(content_type) IN IF w[2] = "" THEN w[1] ELSE w[1] \o " " \o w[2]

\* any(keyword in command_text for keyword in ['image', 'picture', 'photo'])
WantsImage(t) == AnyIn({"image", "picture", "photo"}, t)

\* process_facebook_post going on to the post without looking at the topic
process_facebook_post_nocheck(t, client, e, n, mk, pub, dbok) ==
    LET topic == extract_topic_from_command(t, "post")
        p     == create_post_with_ai_content(WantsImage(t), client, e, n, mk, pub, dbok)
    IN  IF p.success
        THEN Handled(Result(TRUE, "Successfully created Facebook post about " \o topic.text,
                 "facebook_post", TRUE, p.image_path), p.calls, p.published, p.posts)
        ELSE Handled(Result(FALSE, "Failed to create Facebook post: " \o p.error,
                 "facebook_post", FALSE, FALSE), p.calls, p.published, p.posts)

\* CommandProcessor.process_facebook_post
process_facebook_post(t, client, e, n, mk, pub, dbok) ==
    LET topic         == extract_topic_from_command(t, "post")
        include_image == WantsImage(t)
        p             == create_post_with_ai_content(include_image, client, e, n, mk, pub, dbok)
    IN  IF Falsy(topic)
        THEN Handled(Result(FALSE,
                 "I couldn't understand what you want to post about. Please specify a topic.",
                 "facebook_post", FALSE, FALSE), << >>, << >>, << >>)
        ELSE IF p.success
        THEN Handled(Result(TRUE,
                 "Successfully created Facebook post about " \o topic.text
                     \o (IF p.image_path THEN " with an AI-generated image" ELSE ""),
                 "facebook_post", TRUE, p.image_path), p.calls, p.published, p.posts)
        ELSE Handled(Result(FALSE, "Failed to create Facebook post: " \o p.error,
                 "facebook_post", FALSE, FALSE), p.calls, p.published, p.posts)

\* CommandProcessor.process_image_generation
process_image_generation(t, client, e, n, mk) ==
    LET description == extract_topic_from_command(t, "image")
        g           == GeminiService_generate_image(client, e, n)
    IN  IF Falsy(description)
        THEN Handled(Result(FALSE, "Please describe what image you want me to generate.",
                 "create_image", FALSE, FALSE), << >>, << >>, << >>)
        ELSE IF ~mk
        THEN Handled(Result(FALSE, "Error generating image: makedirs",
                 "create_image", FALSE, FALSE), << >>, << >>, << >>)
        ELSE IF g.ret.success
        THEN Handled(Result(TRUE, "Successfully generated image: " \o description.text,
                 "create_image", TRUE, TRUE), g.calls, << >>, << >>)
        ELSE Handled(Result(FALSE, "Failed to generate image: " \o g.ret.payload,
                 "create_image", FALSE, FALSE), g.calls, << >>, << >>)

\* CommandProcessor.process_text_generation (the sentence about hashtags that
\* follows the message is taken from the provider's text and left out)
process_text_generation(t, e, n) ==
    LET content_type == ContentTypeOf(t)
        topic        == extract_text_topic(t, content_type)
        r            == generate_content(content_type, e, n)
    IN  IF Falsy(topic)
        THEN Handled(Result(FALSE,
                 "Please tell me what " \o Spaced(content_type) \o " you want me to write about.",
                 "text_generation", FALSE, FALSE), << >>, << >>, << >>)
        ELSE IF r.ret.success
        THEN Handled(Result(TRUE,
                 "I've written a " \o Spaced(content_type) \o " about " \o topic.text \o ". ",
                 "text_generation", TRUE, FALSE), r.calls, << >>, << >>)
        ELSE Handled(Result(FALSE,
                 "I couldn't generate the " \o Spaced(content_type) \o ": " \o r.ret.payload,
                 "text_generation", FALSE, FALSE), r.calls, << >>, << >>)

\* CommandProcessor.process_general_query: generate_text_response returns a
\* string whatever happens, and the string becomes the message of a success
process_general_query(t, client, e, n) ==
    LET r == generate_text_response(client, e, n) IN
    Handled(Result(TRUE, r.ret.payload, "general_query", FALSE, FALSE), r.calls, << >>, << >>)

\* CommandProcessor.process_system_status: the counts of today when the
\* queries work, zeros when they do not
process_system_status(dbok) ==
    Handled(Result(TRUE,
        IF dbok THEN "System is running well. Today I've processed n commands"
        ELSE "System is running well. Today I've processed 0 commands",
        "system_status", TRUE, FALSE), << >>, << >>, << >>)

\* CommandProcessor.process_auto_reply_status
process_auto_reply_status(recent) ==
    Handled(Result(TRUE,
        IF recent THEN "Auto-reply system is active. I've sent n recent replies."
        ELSE "Auto-reply system is active and monitoring emails and WhatsApp messages. No recent replies have been sent.",
        "auto_reply_status", TRUE, FALSE), << >>, << >>, << >>)

\* the auto-reply passes: the scheduled job, the /manual-auto-reply route
\* (both run EmailService.process_auto_replies) and the WhatsApp webhook
EmailPasses == {"monitor", "manual"}

Passes == EmailPasses \cup {"webhook"}

Platform(p) == IF p \in EmailPasses THEN "email" ELSE "whatsapp"

IdlePass == [pc |-> "idle", batch |-> << >>, i |-> 1, processed |-> << >>, ret |-> << >>]

\* no pass has started, nothing was sent or logged
QuietReply ==
    /\ pass = [p \in Passes |-> IdlePass]
    /\ autoReplyLog = {}
    /\ delivered = {}
    /\ attempted = {}

\* the auto-reply side when no pass is looked at
IdleReply ==
    /\ service = FALSE
    /\ unread = {}
    /\ QuietReply

NoRequest == [content_type |-> "", topic |-> "", tone |-> "", language |-> "", custom_instructions |-> ""]

\* no generate_content call is looked at
IdleContent ==
    /\ hash_order = << >>
    /\ request = NoRequest
    /\ stub = [prompt |-> NoRequest, text |-> ""]
    /\ now = 0
    /\ generated = << >>

NotAString == [isStr |-> FALSE, text |-> ""]

\* the state of process_command before a call
NoRow == [present |-> FALSE, command_text |-> "", command_type |-> "", status |-> "",
          result |-> "", completed_at |-> FALSE]

NoCmdResult == Result(FALSE, "", "", FALSE, FALSE)

IdleCmd ==
    /\ pc = "idle"
    /\ command_in = NotAString
    /\ command_text = ""
    /\ command_log = NoRow
    /\ result = NoCmdResult
    /\ raised = FALSE
    /\ spoken = None
    /\ playback = "none"
    /\ published = << >>
    /\ posts = << >>

(***************************************************************************)
(* One fallback invocation (specification SpecChain)                       *)
(***************************************************************************)
MaxNonFail == 2

AllFail == [ep \in Endpoints |-> "fail"]

\* the endpoints of a chain that hold a credential in the current state
Live(c) ==
    LET gs_text  == (IF geminiClient THEN {"gs.gemini"} ELSE {})
                    \cup (IF "HUGGINGFACE_API_KEY" \in env THEN Range(HFTextModels) ELSE {})
                    \cup (IF "AIML_API_KEY" \in env THEN {"gs.aiml"} ELSE {})
        gs_image == (IF geminiClient THEN {"gs.gemini_image"} ELSE {})
                    \cup (IF "DEEPAI_API_KEY" \in env THEN {"gs.deepai"} ELSE {})
                    \cup (IF "HUGGINGFACE_API_KEY" \in env THEN Range(HFImageModels) ELSE {})
                    \cup (IF "REPLICATE_API_KEY" \in env THEN {"gs.replicate"} ELSE {})
    IN  IF c = "gs_text" THEN gs_text
        ELSE IF c = "gs_image" THEN gs_image
        ELSE IF c = "text_ai" THEN {"text_ai." \o p : p \in {q \in Range(provider_order) : TextAIKey(q) \in env}}
        ELSE IF c = "multi_text"
        THEN {"multi." \o p : p \in providerKeys \ {"gemini", "together"}}
             \cup (IF "gemini" \in providerKeys THEN gs_text ELSE {})
        ELSE IF c = "multi_image"
        THEN {"multi." \o p \o "_image" : p \in providerKeys \cap {"openrouter", "together"}}
             \cup (IF "huggingface" \in providerKeys THEN Range(MultiHFImageModels) ELSE {})
             \cup (IF "gemini" \in providerKeys THEN gs_image ELSE {})
        ELSE {}

\* transport behaviours: at most MaxNonFail live endpoints do not plainly fail
NetChoices(live) ==
    UNION {{[ep \in Endpoints |-> IF ep \in D THEN a[ep] ELSE "fail"] : a \in [D -> {"ok", "raise"}]} :
           D \in {X \in SUBSET live : Cardinality(X) <= MaxNonFail}}

ContentTypeInputs == {"social_post", "poem"}

IdleChain ==
    /\ net = AllFail
    /\ chain = "idle"
    /\ arg = ""
    /\ calls = << >>
    /\ res = [ret |-> NoResult, raised |-> FALSE]

\* the process after import: module-level singletons constructed from os.environ
InitCreds ==
    /\ env \in SUBSET Keys
    /\ providerKeys = initialize_providers(env)
    /\ geminiClient \in (IF "GEMINI_API_KEY" \in env THEN BOOLEAN ELSE {FALSE})
    /\ updated = {}
    /\ current_provider = DefaultProvider

IdleText ==
    /\ textIn = ""
    /\ textOp = "none"
    /\ textOut = NoSlots

InitChain == InitCreds /\ IdleChain /\ IdleText /\ IdleCmd /\ IdleReply /\ IdleContent

Invoked(c, a, n, r) ==
    /\ chain' = c
    /\ arg' = a
    /\ net' = n
    /\ calls' = r.calls
    /\ res' = [ret |-> r.ret, raised |-> r.raised]
    /\ UNCHANGED <<textVars, credVars, cmdVars, replyVars, contentVars>>

InvokeGenerateTextResponse ==
    /\ chain = "idle"
    /\ \E n \in NetChoices(Live("gs_text")) :
           Invoked("gs_text", "", n, generate_text_response(geminiClient, env, n))

InvokeGeminiGenerateImage ==
    /\ chain = "idle"
    /\ \E n \in NetChoices(Live("gs_image")) :
           Invoked("gs_image", "", n, GeminiService_generate_image(geminiClient, env, n))

InvokeGenerateContent ==
    /\ chain = "idle"
    /\ \E ct \in ContentTypeInputs, n \in NetChoices(Live("text_ai")) :
           Invoked("text_ai", ct, n, generate_content(ct, env, n))

InvokeMultiGenerateText ==
    /\ chain = "idle"
    /\ \E n \in NetChoices(Live("multi_text")) :
           Invoked("multi_text", "", n, MultiAI_generate_text("", providerKeys, geminiClient, env, n))

InvokeMultiGenerateImage ==
    /\ chain = "idle"
    /\ \E n \in NetChoices(Live("multi_image")) :
           Invoked("multi_image", "", n, MultiAI_generate_image("", providerKeys, geminiClient, env, n))

\* the caller has taken the result
Returned ==
    /\ chain # "idle"
    /\ chain' = "idle"
    /\ arg' = ""
    /\ net' = AllFail
    /\ calls' = << >>
    /\ res' = [ret |-> NoResult, raised |-> FALSE]
    /\ UNCHANGED <<textVars, credVars, cmdVars, replyVars, contentVars>>

NextChain ==
    \/ InvokeGenerateTextResponse
    \/ InvokeGeminiGenerateImage
    \/ InvokeGenerateContent
    \/ InvokeMultiGenerateText
    \/ InvokeMultiGenerateImage
    \/ Returned

SpecChain == InitChain /\ [][NextChain]_vars

(***************************************************************************)
(* The text functions applied to a command (specification SpecText)        *)
(***************************************************************************)
\* no credentials, no invocation: the text functions use neither
NoCreds ==
    /\ env = {}
    /\ providerKeys = {}
    /\ geminiClient = FALSE
    /\ updated = {}
    /\ current_provider = DefaultProvider

InitText ==
    /\ textIn \in RawCommands
    /\ textOp = "none"
    /\ textOut = NoSlots
    /\ NoCreds
    /\ IdleChain
    /\ IdleCmd
    /\ IdleReply
    /\ IdleContent

ApplyClassify ==
    /\ textOp = "none"
    /\ textOp' = "classify"
    /\ textOut' = [NoSlots EXCEPT !.intent = classify_and_execute_command(normalize(textIn))]
    /\ UNCHANGED <<textIn, credVars, chainVars, cmdVars, replyVars, contentVars>>

ApplyExtractPost ==
    /\ textOp = "none"
    /\ textOp' = "extract_post"
    /\ textOut' = [NoSlots EXCEPT !.topic = extract_topic_from_command(normalize(textIn), "post")]
    /\ UNCHANGED <<textIn, credVars, chainVars, cmdVars, replyVars, contentVars>>

ApplyExtractImage ==
    /\ textOp = "none"
    /\ textOp' = "extract_image"
    /\ textOut' = [NoSlots EXCEPT !.topic = extract_topic_from_command(normalize(textIn), "image")]
    /\ UNCHANGED <<textIn, credVars, chainVars, cmdVars, replyVars, contentVars>>

ApplyTextSlots ==
    /\ textOp = "none"
    /\ textOp' = "text_slots"
    /\ textOut' = LET t == normalize(textIn) IN
                  [NoSlots EXCEPT !.content_type = ContentTypeOf(t),
                                  !.topic = extract_text_topic(t, ContentTypeOf(t))]
    /\ UNCHANGED <<textIn, credVars, chainVars, cmdVars, replyVars, contentVars>>

NextText == ApplyClassify \/ ApplyExtractPost \/ ApplyExtractImage \/ ApplyTextSlots

SpecText == InitText /\ [][NextText]_vars

(***************************************************************************)
(* process_command, step by step (specification SpecCmd)                   *)
(***************************************************************************)
AttributeError == "'NoneType' object has no attribute 'lower'"

\* what process_command is called with: commands of every intent, with and
\* without a topic, in any case and padded, and a value that is not a string
CommandTexts == {"Post", "post about cats", "Share cats picture", "picture",
                 "generate a sunset over mountains", "write a", "write a blog about cats",
                 "email reply", "status", "how are you", "whatsapp", "messages", "hello",
                 "story", "write a review of cats", "write a cats guide", "write product cats",
                 "write news on cats", "write a cats story", "write on cats", "reply to bob"}

CommandInputs == {[isStr |-> TRUE, text |-> " " \o a \o " "] : a \in CommandTexts} \cup {NotAString}

MaxKeys == 2

InitCmd ==
    /\ env \in {E \in SUBSET Keys : Cardinality(E) <= MaxKeys}
    /\ providerKeys = initialize_providers(env)
    /\ geminiClient \in (IF "GEMINI_API_KEY" \in env THEN BOOLEAN ELSE {FALSE})
    /\ updated = {}
    /\ current_provider = DefaultProvider
    /\ IdleChain
    /\ IdleText
    /\ IdleCmd
    /\ IdleReply
    /\ IdleContent

\* an exception that leaves a handler's caller uncaught
process_command_reraise(text) == [raised |-> TRUE, result |-> NoCmdResult]

\* the except clause of process_command
process_command_except(text) ==
    [raised |-> FALSE,
     result |-> Result(FALSE, "Sorry, I encountered an error: " \o text, "error", FALSE, FALSE)]

\* process_command(x): command_text.lower().strip(), which raises when x is
\* not a string
ProcessCommand ==
    /\ pc = "idle"
    /\ \E x \in CommandInputs :
           /\ command_in' = x
           /\ IF x.isStr
              THEN /\ command_text' = normalize(x.text)
                   /\ pc' = "log"
                   /\ UNCHANGED <<result, raised>>
              ELSE LET b == process_command_except(AttributeError) IN
                   /\ command_text' = ""
                   /\ result' = b.result
                   /\ raised' = b.raised
                   /\ pc' = IF b.raised THEN "done" ELSE "speak"
    /\ UNCHANGED <<textVars, credVars, chainVars, replyVars, contentVars, command_log, spoken, playback, published, posts>>

\* the CommandHistory row is added and committed, or the failure is logged
LogCommand ==
    /\ pc = "log"
    /\ \E ok \in BOOLEAN :
           command_log' = IF ok THEN [present |-> TRUE, command_text |-> command_text,
                                      command_type |-> "unknown", status |-> "processing",
                                      result |-> "", completed_at |-> FALSE]
                          ELSE NoRow
    /\ pc' = "classify"
    /\ UNCHANGED <<textVars, credVars, chainVars, replyVars, contentVars, command_in, command_text, result, raised, spoken, playback,
                   published, posts>>

Dispatched(intent) == pc = "classify" /\ classify_and_execute_command(command_text) = intent

\* the answers the handler received; an endpoint it never asked gave none
Answered(n, cs) == [ep \in Endpoints |-> IF ep \in Range(cs) THEN n[ep] ELSE "fail"]

\* the endpoints the handler of the command can reach: none without a topic
Reach(slot, live) == IF Falsy(slot) THEN {} ELSE live

\* the slots the handler extracted from the command
Slots(intent, content_type, topic) ==
    [intent |-> intent, content_type |-> content_type, topic |-> topic]

Handle(h, n, slots) ==
    /\ result' = h.result
    /\ calls' = h.calls
    /\ published' = h.published
    /\ posts' = h.posts
    /\ net' = Answered(n, h.calls)
    /\ textOut' = slots
    /\ pc' = "update"
    /\ UNCHANGED <<textIn, textOp, credVars, replyVars, contentVars, chain, arg, res, command_in, command_text,
                   command_log, raised, spoken, playback>>

HandleFacebookPost ==
    /\ Dispatched("facebook_post")
    /\ LET topic == extract_topic_from_command(command_text, "post")
           live  == Live("gs_text") \cup
                    (IF WantsImage(command_text) THEN Live("gs_image") ELSE {})
       IN  \E n \in NetChoices(Reach(topic, live)),
              mk \in (IF WantsImage(command_text) THEN BOOLEAN ELSE {TRUE}),
              pub \in PublishOutcomes, dbok \in BOOLEAN :
               /\ (pub # "ok" => dbok)   \* the row is only written after a publish
               /\ Handle(process_facebook_post(command_text, geminiClient, env, n, mk, pub, dbok),
                         n, Slots("facebook_post", "", topic))

HandleImageGeneration ==
    /\ Dispatched("create_image")
    /\ LET description == extract_topic_from_command(command_text, "image") IN
       \E n \in NetChoices(Reach(description, Live("gs_image"))), mk \in BOOLEAN :
           Handle(process_image_generation(command_text, geminiClient, env, n, mk),
                  n, Slots("create_image", "", description))

HandleTextGeneration ==
    /\ Dispatched("text_generation")
    /\ LET content_type == ContentTypeOf(command_text)
           topic        == extract_text_topic(command_text, content_type)
       IN  \E n \in NetChoices(Reach(topic, Live("text_ai"))) :
               Handle(process_text_generation(command_text, env, n),
                      n, Slots("text_generation", content_type, topic))

HandleGeneralQuery ==
    /\ Dispatched("general_query")
    /\ \E n \in NetChoices(Live("gs_text")) :
           Handle(process_general_query(command_text, geminiClient, env, n),
                  n, Slots("general_query", "", None))

HandleSystemStatus ==
    /\ Dispatched("system_status")
    /\ \E dbok \in BOOLEAN :
           Handle(process_system_status(dbok), net, Slots("system_status", "", None))

HandleAutoReplyStatus ==
    /\ Dispatched("auto_reply_status")
    /\ \E recent \in BOOLEAN :
           Handle(process_auto_reply_status(recent), net, Slots("auto_reply_status", "", None))

\* an update that marks every command completed
complete_always(row, r) ==
    [row EXCEPT !.status = "completed", !.result = r.message,
                !.command_type = r.command_type, !.completed_at = TRUE]

\* command_log.status, .result, .command_type and .completed_at as
\* process_command sets them from the result
complete(row, r) ==
    [row EXCEPT !.status = IF r.success THEN "completed" ELSE "failed",
                !.result = r.message,
                !.command_type = r.command_type,
                !.completed_at = TRUE]

\* if command_log: the fields are set and committed, or the failure is
\* logged and the stored row stays as it was
UpdateCommandLog ==
    /\ pc = "update"
    /\ \E ok \in BOOLEAN :
           command_log' = IF command_log.present /\ ok THEN complete(command_log, result)
                          ELSE command_log
    /\ pc' = "speak"
    /\ UNCHANGED <<textVars, credVars, chainVars, replyVars, contentVars, command_in, command_text, result, raised, spoken, playback,
                   published, posts>>

\* the thread's state once it exists
PlaybackStates == {"running", "finished", "failed"}

\* a speak that plays the text before it returns
speak_blocking(text, started) ==
    [spoken |-> IF started THEN Str(text) ELSE None,
     playback |-> IF started THEN "finished" ELSE "none"]

\* voice_service.speak(text): starts the daemon thread and returns, or
\* logs why the thread could not be started
speak(text, started) ==
    [spoken |-> IF started THEN Str(text) ELSE None,
     playback |-> IF started THEN "running" ELSE "none"]

Speak ==
    /\ pc = "speak"
    /\ \E started \in BOOLEAN :
           /\ spoken' = speak(result.message, started).spoken
           /\ playback' = speak(result.message, started).playback
    /\ pc' = "done"
    /\ UNCHANGED <<textVars, credVars, chainVars, replyVars, contentVars, command_in, command_text, command_log, result, raised,
                   published, posts>>

\* _speak in its thread: engine.say(text); engine.runAndWait().  An
\* exception ends the thread and nothing else.
Playback ==
    /\ playback = "running"
    /\ playback' \in PlaybackStates \ {"running"}
    /\ UNCHANGED <<textVars, credVars, chainVars, replyVars, contentVars, pc, command_in, command_text, command_log, result,
                   raised, spoken, published, posts>>

NextCmd ==
    \/ ProcessCommand
    \/ LogCommand
    \/ HandleFacebookPost
    \/ HandleImageGeneration
    \/ HandleTextGeneration
    \/ HandleGeneralQuery
    \/ HandleSystemStatus
    \/ HandleAutoReplyStatus
    \/ UpdateCommandLog
    \/ Speak
    \/ Playback

SpecCmd == InitCmd /\ [][NextCmd]_vars

(***************************************************************************)
(* process_command with calls that may never answer (specification         *)
(* SpecLive): services/facebook_service.py                                 *)
(***************************************************************************)
\* the requests calls made without a timeout= argument: the Graph API
\* posts and page lookup, the WhatsApp send, and the download of the image
\* in _call_openrouter_image
Untimed == {"facebook.feed", "facebook.photos", "facebook.page", "whatsapp.messages",
            "multi.openrouter_image.download"}

\* the Graph API call create_post_with_ai_content ends with
PublishCalls(t) == IF WantsImage(t) THEN {"facebook.feed", "facebook.photos"} ELSE {"facebook.feed"}

\* process_facebook_post has its content and calls create_text_post or
\* create_photo_post; the peer accepts the connection and never answers,
\* so requests.post does not return
PublishHangs ==
    /\ Dispatched("facebook_post")
    /\ ~Falsy(extract_topic_from_command(command_text, "post"))
    /\ PublishCalls(command_text) \cap Untimed # {}
    /\ pc' = "blocked"
    /\ textOut' = Slots("facebook_post", "", extract_topic_from_command(command_text, "post"))
    /\ UNCHANGED <<textIn, textOp, credVars, chainVars, replyVars, contentVars, command_in, command_text,
                   command_log, result, raised, spoken, playback, published, posts>>

NextLive ==
    \/ ProcessCommand
    \/ LogCommand
    \/ HandleFacebookPost
    \/ HandleImageGeneration
    \/ HandleTextGeneration
    \/ HandleGeneralQuery
    \/ HandleSystemStatus
    \/ HandleAutoReplyStatus
    \/ UpdateCommandLog
    \/ Speak
    \/ Playback
    \/ PublishHangs

\* the steps of process_command itself, handlers aside
OwnSteps == ProcessCommand \/ LogCommand \/ UpdateCommandLog \/ Speak

\* the handler the command was dispatched to returns its result
HandlerReturns == pc = "classify" /\ pc' = "update"

\* the worker that runs process_command keeps running: it takes its own
\* next step when there is one, and a handler whose calls have all ended
\* returns
SpecLive == InitCmd /\ [][NextLive]_vars /\ WF_vars(OwnSteps) /\ WF_pc(HandlerReturns)

(***************************************************************************)
(* Configuration updates between invocations (specification SpecConfig):   *)
(* routes/api_routes.py update_config                                      *)
(***************************************************************************)
MaxUpdates == 1

\* the provider keys of env_mappings
ConfigKeys == {"GEMINI_API_KEY", "HUGGINGFACE_API_KEY", "AIML_API_KEY", "OPENAI_API_KEY",
               "DEEPAI_API_KEY", "REPLICATE_API_KEY"}

InitConfig == InitCmd

\* update_config: os.environ[env_key] = value.  The services constructed
\* at import keep what they read then: MultiAIService.providers[..].api_key
\* and the module-level Gemini client.
UpdateConfig ==
    /\ chain = "idle"
    /\ Cardinality(updated) < MaxUpdates
    /\ \E k \in ConfigKeys \ updated :
           /\ env' = env \cup {k}
           /\ updated' = updated \cup {k}
    /\ UNCHANGED <<providerKeys, geminiClient, current_provider, textVars, chainVars, cmdVars, replyVars, contentVars>>

NextConfig ==
    \/ UpdateConfig
    \/ InvokeGenerateTextResponse
    \/ InvokeGeminiGenerateImage
    \/ InvokeGenerateContent
    \/ InvokeMultiGenerateText
    \/ InvokeMultiGenerateImage
    \/ Returned

SpecConfig == InitConfig /\ [][NextConfig]_vars

(***************************************************************************)
(* Auto-reply passes (specification SpecReply):                            *)
(* services/email_service.py, services/whatsapp_service.py, tasks.py       *)
(***************************************************************************)
MaxInbox == 2

Items == 1..MaxInbox

\* the messages of a listing, in the order the listing gives them
RECURSIVE Listing(_)
Listing(S) ==
    IF S = {} THEN << >>
    ELSE LET m == CHOOSE x \in S : \A y \in S : x <= y IN <<m>> \o Listing(S \ {m})

Row(platform, item, status, by) ==
    [platform |-> platform, item |-> item, status |-> status, by |-> by]

Attempt(platform, item, by) == [platform |-> platform, item |-> item, by |-> by]

Outcome(item, status) == [item |-> item, status |-> status]

InitReply ==
    /\ service \in BOOLEAN
    /\ unread \in SUBSET Items
    /\ QuietReply
    /\ IdleContent
    /\ NoCreds
    /\ IdleChain
    /\ IdleText
    /\ IdleCmd

\* a pass that handles its first item by writing the record
after_fetch_log(batch) == IF batch = << >> THEN "done" ELSE "log"

\* for email in unread_emails: the first thing done for an item is the send
after_fetch(batch) == IF batch = << >> THEN "done" ELSE "send"

\* the loop goes to the next item, or the pass returns what it collected
NextItem(st, out) ==
    IF st.i >= Len(st.batch)
    THEN [st EXCEPT !.processed = out, !.i = st.i + 1, !.pc = "done", !.ret = out]
    ELSE [st EXCEPT !.processed = out, !.i = st.i + 1, !.pc = "send"]

\* the except clause of process_auto_replies: the pass returns []
Aborted(st) == [st EXCEPT !.pc = "done", !.ret = << >>]

OtherUnchanged == UNCHANGED <<textVars, credVars, chainVars, cmdVars, contentVars>>

\* EmailService.process_auto_replies up to the loop: without a Gmail service
\* it returns [] at once; get_unread_emails lists the unread emails, or
\* returns [] on an HttpError, or raises
ProcessAutoReplies(p) ==
    /\ p \in EmailPasses
    /\ pass[p].pc = "idle"
    /\ \E fetched \in BOOLEAN :
           LET batch == IF service /\ fetched THEN Listing(unread) ELSE << >> IN
           pass' = [pass EXCEPT ![p] = [IdlePass EXCEPT !.batch = batch,
                                                        !.pc = after_fetch(batch)]]
    /\ UNCHANGED <<service, unread, autoReplyLog, delivered, attempted>>
    /\ OtherUnchanged

\* generate_auto_reply and send_reply for the current email.  "sent": the
\* reply went out and the email was marked read; "unmarked": it went out
\* but messages().modify raised; "failed": it did not go out.  Only "sent"
\* makes send_reply return True.
SendReply(p) ==
    /\ p \in EmailPasses
    /\ pass[p].pc = "send"
    /\ LET st   == pass[p]
           item == st.batch[st.i]
       IN  \E how \in {"sent", "unmarked", "failed"} :
               /\ attempted' = attempted \cup {Attempt("email", item, p)}
               /\ delivered' = IF how = "failed" THEN delivered
                               ELSE delivered \cup {Attempt("email", item, p)}
               /\ unread' = IF how = "sent" THEN unread \ {item} ELSE unread
               /\ pass' = [pass EXCEPT ![p] =
                              IF how = "sent"
                              THEN [st EXCEPT !.processed = Append(st.processed, Outcome(item, "sent")),
                                              !.pc = "log"]
                              ELSE NextItem(st, Append(st.processed, Outcome(item, "failed")))]
    /\ UNCHANGED <<service, autoReplyLog>>
    /\ OtherUnchanged

\* the AutoReplyLog row of a sent reply is added and committed; a failure
\* raises into the except clause of process_auto_replies
LogEmailReply(p) ==
    /\ p \in EmailPasses
    /\ pass[p].pc = "log"
    /\ LET st   == pass[p]
           item == st.batch[st.i]
       IN  \E ok \in BOOLEAN :
               /\ autoReplyLog' = IF ok THEN autoReplyLog \cup {Row("email", item, "sent", p)}
                                  ELSE autoReplyLog
               /\ pass' = [pass EXCEPT ![p] = IF ok THEN NextItem(st, st.processed)
                                              ELSE Aborted(st)]
    /\ UNCHANGED <<service, unread, delivered, attempted>>
    /\ OtherUnchanged

\* WhatsAppService.process_incoming_message: the messages of the payload
\* that carry a text, or a malformed payload (the except clause)
ProcessIncomingMessage ==
    /\ pass["webhook"].pc = "idle"
    /\ \E S \in SUBSET Items :
           pass' = [pass EXCEPT !["webhook"] = [IdlePass EXCEPT !.batch = Listing(S),
                                                                !.pc = after_fetch(Listing(S))]]
    /\ UNCHANGED <<service, unread, autoReplyLog, delivered, attempted>>
    /\ OtherUnchanged

\* WhatsAppService.send_auto_reply up to the test of success
SendAutoReply ==
    /\ pass["webhook"].pc = "send"
    /\ LET st   == pass["webhook"]
           item == st.batch[st.i]
       IN  \E ok \in BOOLEAN :
               /\ attempted' = attempted \cup {Attempt("whatsapp", item, "webhook")}
               /\ delivered' = IF ok THEN delivered \cup {Attempt("whatsapp", item, "webhook")}
                               ELSE delivered
               /\ pass' = [pass EXCEPT !["webhook"] =
                              IF ok
                              THEN [st EXCEPT !.processed = Append(st.processed, Outcome(item, "sent")),
                                              !.pc = "log"]
                              ELSE NextItem(st, Append(st.processed, Outcome(item, "failed")))]
    /\ UNCHANGED <<service, unread, autoReplyLog>>
    /\ OtherUnchanged

\* the row of a sent WhatsApp reply; a failure is caught in send_auto_reply,
\* which returns (False, error), and the loop goes on
LogWhatsAppReply ==
    /\ pass["webhook"].pc = "log"
    /\ LET st   == pass["webhook"]
           item == st.batch[st.i]
       IN  \E ok \in BOOLEAN :
               /\ autoReplyLog' = IF ok THEN autoReplyLog \cup {Row("whatsapp", item, "sent", "webhook")}
                                  ELSE autoReplyLog
               /\ pass' = [pass EXCEPT !["webhook"] = NextItem(st, st.processed)]
    /\ UNCHANGED <<service, unread, delivered, attempted>>
    /\ OtherUnchanged

NextReply ==
    \/ \E p \in EmailPasses : ProcessAutoReplies(p)
    \/ \E p \in EmailPasses : SendReply(p)
    \/ \E p \in EmailPasses : LogEmailReply(p)
    \/ ProcessIncomingMessage
    \/ SendAutoReply
    \/ LogWhatsAppReply

SpecReply == InitReply /\ [][NextReply]_vars

(***************************************************************************)
(* Content generation with post-processing (specification SpecContent):    *)
(* services/text_ai_service.py                                             *)
(***************************************************************************)
MaxCalls == 2

\* content_templates[content_type]['include_hashtags']
include_hashtags(content_type) ==
    content_type \in {"social_post", "blog_article", "product_description", "tutorial", "review"}

\* TextAIService.hashtag_categories, in the order of the dict
hashtag_categories ==
    << [category |-> "technology",
        tags |-> <<"#tech", "#innovation", "#ai", "#digital", "#future", "#gadgets", "#software">>],
       [category |-> "business",
        tags |-> <<"#business", "#entrepreneur", "#startup", "#marketing", "#success", "#growth">>],
       [category |-> "lifestyle",
        tags |-> <<"#lifestyle", "#wellness", "#health", "#fitness", "#motivation", "#inspiration">>],
       [category |-> "education",
        tags |-> <<"#education", "#learning", "#knowledge", "#skills", "#tutorial", "#howto">>],
       [category |-> "entertainment",
        tags |-> <<"#entertainment", "#fun", "#trending", "#viral", "#creative", "#art">>],
       [category |-> "travel",
        tags |-> <<"#travel", "#adventure", "#explore", "#wanderlust", "#vacation", "#journey">>],
       [category |-> "food",
        tags |-> <<"#food", "#cooking", "#recipe", "#delicious", "#foodie", "#culinary">>],
       [category |-> "fashion",
        tags |-> <<"#fashion", "#style", "#outfit", "#trend", "#beauty", "#design">>] >>

\* Python: s[:n]
Prefix(s, n) == SubSeq(s, 1, IF n < Len(s) THEN n ELSE Len(s))

\* the characters of \w
WordChars ==
    {Ch(LowerAlpha, i) : i \in 1..Len(LowerAlpha)} \cup UpperSet
    \cup {"0", "1", "2", "3", "4", "5", "6", "7", "8", "9", "_"}

\* the length of the run of \w characters of t that starts at index i
RECURSIVE WordLen(_, _)
WordLen(t, i) == IF i <= Len(t) /\ Ch(t, i) \in WordChars THEN 1 + WordLen(t, i + 1) ELSE 0

\* re.findall(r'#\w+', t), scanning from index i
RECURSIVE findall_hashtags(_, _)
findall_hashtags(t, i) ==
    IF i > Len(t) THEN << >>
    ELSE LET n == WordLen(t, i + 1) IN
         IF Ch(t, i) = "#" /\ n > 0
         THEN <<SubSeq(t, i, i + n)>> \o findall_hashtags(t, i + n + 1)
         ELSE findall_hashtags(t, i + 1)

\* Python: t.replace(k, ''), from index i on
RECURSIVE Remove(_, _, _)
Remove(t, k, i) ==
    IF i > Len(t) THEN ""
    ELSE IF IsAt(t, k, i) THEN Remove(t, k, i + Len(k))
    ELSE Ch(t, i) \o Remove(t, k, i + 1)

\* Python: len(t.split()), counting from index i
RECURSIVE WordCount(_, _)
WordCount(t, i) ==
    IF i > Len(t) THEN 0
    ELSE IF IsSpace(Ch(t, i)) THEN WordCount(t, i + 1)
    ELSE (IF i = 1 \/ IsSpace(Ch(t, i - 1)) THEN 1 ELSE 0) + WordCount(t, i + 1)

\* the tags of the first category whose name occurs in the topic, cut to 3
RECURSIVE CategoryTags(_, _)
CategoryTags(topic_lower, j) ==
    IF j > Len(hashtag_categories) THEN << >>
    ELSE IF In(hashtag_categories[j].category, topic_lower)
         THEN Prefix(hashtag_categories[j].tags, 3)
         ELSE CategoryTags(topic_lower, j + 1)

TypeTags(content_type) ==
    IF content_type = "blog_article" THEN <<"#blog", "#article", "#content">>
    ELSE IF content_type = "tutorial" THEN <<"#tutorial", "#guide", "#howto">>
    ELSE IF content_type = "review" THEN <<"#review", "#honest", "#opinion">>
    ELSE << >>

\* TextAIService._generate_hashtags
generate_hashtags(topic, content_type) ==
    LET hashtags      == CategoryTags(Lower(topic), 1) \o TypeTags(content_type)
        topic_hashtag == "#" \o Prefix(Lower(Remove(topic, " ", 1)), 15)
    IN  Prefix(IF Len(topic_hashtag) > 2 THEN Append(hashtags, topic_hashtag) ELSE hashtags, 5)

\* Python: list(set(hashtags)) and `for hashtag in set(hashtags)`: the
\* members of the list, once each, in the interpreter's order
list_set(hashtags, order) == SelectSeq(order, LAMBDA h : h \in Range(hashtags))

\* for hashtag in ...: processed_text = processed_text.replace(hashtag, '').strip()
RECURSIVE RemoveEach(_, _, _)
RemoveEach(t, hs, j) ==
    IF j > Len(hs) THEN t ELSE RemoveEach(Strip(Remove(t, hs[j], 1)), hs, j + 1)

\* TextAIService._post_process_content
post_process_content(content, content_type, include, topic, order) ==
    LET matches  == IF include THEN findall_hashtags(content, 1) ELSE << >>
        hashtags == IF include /\ matches = << >> THEN generate_hashtags(topic, content_type)
                    ELSE matches
        text     == IF hashtags # << >> /\ include
                    THEN RemoveEach(Strip(content), list_set(hashtags, order), 1)
                    ELSE Strip(content)
    IN  [text |-> text, hashtags |-> list_set(hashtags, order)]

\* TextAIService._build_prompt: what the prompt is made of
build_prompt(r) ==
    [content_type |-> r.content_type, topic |-> r.topic, tone |-> r.tone, language |-> r.language,
     custom_instructions |-> r.custom_instructions]

\* the stub provider answers its prompt with its text
Answer(prompt, s) == IF prompt = s.prompt THEN s.text ELSE "Sorry #unknown"

\* list(self.content_templates.keys()): the templates in insertion order
available_types ==
    <<"social_post", "blog_article", "email_reply", "product_description",
      "news_article", "creative_story", "tutorial", "review">>

\* a result whose content carries the time of the call
ContentResultDated(processed, provider, content_type, at) ==
    [success |-> TRUE, content |-> processed.text \o " " \o ToString(at),
     hashtags |-> processed.hashtags,
     word_count |-> WordCount(processed.text, 1), provider |-> provider,
     content_type |-> content_type, generated_at |-> at]

\* the dict generate_content returns for the first provider with content
ContentResult(processed, provider, content_type, at) ==
    [success |-> TRUE, content |-> processed.text, hashtags |-> processed.hashtags,
     word_count |-> WordCount(processed.text, 1), provider |-> provider,
     content_type |-> content_type, generated_at |-> at]

\* TextAIService.generate_content with its post-processing
generate_content_dict(r, e, n, s, order, at) ==
    LET g == generate_content(r.content_type, e, n) IN
    IF ~g.ret.success /\ g.ret.payload = "Unsupported content type"
    THEN [success |-> FALSE, error |-> "Unsupported content type: " \o r.content_type,
          available_types |-> available_types]
    ELSE IF g.ret.success
    THEN ContentResult(post_process_content(Answer(build_prompt(r), s), r.content_type,
                                            include_hashtags(r.content_type), r.topic, order),
                       g.ret.provider, r.content_type, at)
    ELSE [success |-> FALSE, error |-> g.ret.payload]

ContentTopics == {"cats", "Food Tips", "a"}

ContentTypes == {"social_post", "blog_article", "email_reply", "poem"}

StubTexts == {"Cats rule #cats #pets ", "#cat and #cats", " Cats rule", "#pets #cats #pets ok"}

Requests_ ==
    {[content_type |-> ct, topic |-> t, tone |-> "friendly", language |-> "english",
      custom_instructions |-> ""] : ct \in ContentTypes, t \in ContentTopics}

\* every hashtag a call can meet
AllTags ==
    UNION ({Range(findall_hashtags(x, 1)) : x \in StubTexts \cup {"Sorry #unknown"}}
           \cup {Range(generate_hashtags(r.topic, r.content_type)) : r \in Requests_})

\* the members of a set in some order
RECURSIVE Enumerate(_)
Enumerate(S) ==
    IF S = {} THEN << >> ELSE LET m == CHOOSE x \in S : TRUE IN <<m>> \o Enumerate(S \ {m})

Reverse(q) == [i \in 1..Len(q) |-> q[Len(q) + 1 - i]]

\* the iteration orders looked at: str hashes are salted per interpreter
HashOrders == {Enumerate(AllTags), Reverse(Enumerate(AllTags))}

TextAIKeys == {TextAIKey(provider_order[j]) : j \in 1..Len(provider_order)}

InitContent ==
    /\ env \in SUBSET TextAIKeys
    /\ providerKeys = initialize_providers(env)
    /\ geminiClient = ("GEMINI_API_KEY" \in env)
    /\ updated = {}
    /\ current_provider = DefaultProvider
    /\ net \in NetChoices(Live("text_ai"))
    /\ chain = "idle"
    /\ arg = ""
    /\ calls = << >>
    /\ res = [ret |-> NoResult, raised |-> FALSE]
    /\ hash_order \in HashOrders
    /\ request \in Requests_
    /\ stub \in {[prompt |-> build_prompt(request), text |-> x] : x \in StubTexts}
    /\ now = 0
    /\ generated = << >>
    /\ IdleText
    /\ IdleCmd
    /\ IdleReply

\* text_ai_service.generate_content(**request)
GenerateContent ==
    /\ Len(generated) < MaxCalls
    /\ generated' = Append(generated, generate_content_dict(request, env, net, stub, hash_order, now))
    /\ calls' = generate_content(request.content_type, env, net).calls
    /\ now' = now + 1
    /\ UNCHANGED <<net, chain, arg, res, hash_order, request, stub, textVars, credVars, cmdVars, replyVars>>

NextContent == GenerateContent

SpecContent == InitContent /\ [][NextContent]_vars

(***************************************************************************)
(* Texts with a canned fallback (specification SpecCanned):                *)
(* services/gemini_service.py generate_facebook_post, generate_auto_reply  *)
(***************************************************************************)
\* the canned posts (their emoji left out)
fallback_posts(topic) ==
    << "Excited to share something about " \o topic
           \o "! What are your thoughts? Share in the comments below! #thoughts #share #community",
       topic \o " is such an interesting topic! I'd love to hear your perspectives. Drop a comment! #discussion #ideas #community",
       "Just thinking about " \o topic
           \o "... Amazing how much there is to explore! What fascinates you most? #explore #learn #curious" >>

\* the canned replies (their emoji left out)
fallback_replies ==
    << "Thank you for your message! I've received it and will get back to you as soon as possible. Have a great day!",
       "Hi there! Thanks for reaching out. I'll review your message and respond shortly. Appreciate your patience!",
       "Hello! I've received your message and will get back to you soon. Thanks for contacting me!" >>

\* the response handed on as it came
response_as_is(response, fallbacks, pick) == response

\* if response and not response.startswith("I'm currently unable"): the
\* response, else random.choice(fallbacks)
response_or_canned(response, fallbacks, pick) ==
    IF response # "" /\ ~IsAt(response, "I'm currently unable", 1) THEN response
    ELSE fallbacks[pick]

\* GeminiService.generate_facebook_post(topic) with the text it returns
generate_facebook_post_text(topic, client, e, n, pick) ==
    LET r == generate_text_response(client, e, n) IN
    [ret |-> Text(response_or_canned(r.ret.payload, fallback_posts(topic), pick)),
     calls |-> r.calls, raised |-> r.raised]

\* GeminiService.generate_auto_reply(original_message)
generate_auto_reply(client, e, n, pick) ==
    LET r == generate_text_response(client, e, n) IN
    [ret |-> Text(response_or_canned(r.ret.payload, fallback_replies, pick)),
     calls |-> r.calls, raised |-> r.raised]

CannedTopics == {"cats", "a sunset"}

InitCanned ==
    /\ env \in SUBSET {"GEMINI_API_KEY", "HUGGINGFACE_API_KEY", "AIML_API_KEY"}
    /\ providerKeys = initialize_providers(env)
    /\ geminiClient \in (IF "GEMINI_API_KEY" \in env THEN BOOLEAN ELSE {FALSE})
    /\ updated = {}
    /\ current_provider = DefaultProvider
    /\ IdleChain
    /\ IdleText
    /\ IdleCmd
    /\ IdleReply
    /\ IdleContent

InvokeGenerateFacebookPost ==
    /\ chain = "idle"
    /\ \E topic \in CannedTopics, n \in NetChoices(Live("gs_text")), pick \in 1..3 :
           Invoked("gs_post", topic, n, generate_facebook_post_text(topic, geminiClient, env, n, pick))

InvokeGenerateAutoReply ==
    /\ chain = "idle"
    /\ \E n \in NetChoices(Live("gs_text")), pick \in 1..3 :
           Invoked("gs_reply", "", n, generate_auto_reply(geminiClient, env, n, pick))

NextCanned == InvokeGenerateFacebookPost \/ InvokeGenerateAutoReply \/ Returned

SpecCanned == InitCanned /\ [][NextCanned]_vars

(***************************************************************************)
(* The primary provider (specification SpecPrimary):                       *)
(* services/multi_ai_service.py set_primary_provider, generate_text,       *)
(* generate_image                                                          *)
(***************************************************************************)
Bool(b) == [shape |-> "bool", success |-> b, payload |-> ""]

\* set_primary_provider taking every name
set_primary_provider_any(provider_name, current) ==
    [current_provider |-> provider_name, ret |-> TRUE]

\* MultiAIService.set_primary_provider: the new current_provider and the
\* value returned
set_primary_provider(provider_name, current) ==
    IF provider_name \in Providers
    THEN [current_provider |-> provider_name, ret |-> TRUE]
    ELSE [current_provider |-> current, ret |-> FALSE]

\* the names a caller passes: the registered ones and two others
ProviderNames == Providers \cup {"openai", "claude"}

MultiKeys == {ProviderKey(p) : p \in Providers}

InitPrimary ==
    /\ env \in SUBSET MultiKeys
    /\ providerKeys = initialize_providers(env)
    /\ geminiClient = ("GEMINI_API_KEY" \in env)
    /\ updated = {}
    /\ current_provider = DefaultProvider
    /\ IdleChain
    /\ IdleText
    /\ IdleCmd
    /\ IdleReply
    /\ IdleContent

SetPrimaryProvider ==
    /\ chain = "idle"
    /\ \E provider_name \in ProviderNames :
           LET r == set_primary_provider(provider_name, current_provider) IN
           /\ current_provider' = r.current_provider
           /\ chain' = "set_primary"
           /\ arg' = provider_name
           /\ res' = [ret |-> Bool(r.ret), raised |-> FALSE]
    /\ UNCHANGED <<env, providerKeys, geminiClient, updated, net, calls,
                   textVars, cmdVars, replyVars, contentVars>>

NextPrimary ==
    \/ SetPrimaryProvider
    \/ InvokeMultiGenerateText
    \/ InvokeMultiGenerateImage
    \/ Returned

SpecPrimary == InitPrimary /\ [][NextPrimary]_vars

(***************************************************************************)
(* Properties of classification and slot extraction                        *)
(***************************************************************************)
\* the rule table of the specification, in evaluation order
Rules ==
    << [intent |-> "facebook_post",     kws |-> {"facebook", "post", "share"}],
       [intent |-> "create_image",      kws |-> {"image", "picture", "generate", "create image"}],
       [intent |-> "text_generation",   kws |-> {"write", "blog", "article", "content", "reply", "email"}],
       [intent |-> "system_status",     kws |-> {"status", "how are you", "system"}],
       [intent |-> "auto_reply_status", kws |-> {"auto reply", "email", "whatsapp", "messages"}] >>

RuleHits(t) == {r \in 1..Len(Rules) : \E k \in Rules[r].kws : In(k, t)}

\* C1: the handler run for a command is that of the first rule, in the fixed
\* order, one of whose keywords occurs in the text, general_query when no
\* rule matches; a text with both "post" and "blog" goes to facebook_post.
C1_FirstMatchWins ==
    textOp = "classify" =>
        LET t == normalize(textIn)
            H == RuleHits(t)
        IN  /\ textOut.intent \in Intents
            /\ H = {} => textOut.intent = "general_query"
            /\ H # {} => \E r \in H : (\A q \in H : r <= q) /\ textOut.intent = Rules[r].intent
            /\ (In("post", t) /\ In("blog", t)) => textOut.intent = "facebook_post"

C1_Witness ==
    /\ textOp = "classify"
    /\ In("post", normalize(textIn)) /\ In("blog", normalize(textIn))
    /\ textOut.intent = "facebook_post"

\* topics that hold no trigger word of the rules before text_generation
PlainTopics == {x \in Phrases(TextMaxPhrases - 1) :
                    ~\E k \in Rules[1].kws \cup Rules[2].kws : In(k, Lower(x))}

\* C2: "write a blog about X" is text_generation with sub-type blog_article
\* and the topic handed to generate_content is X.
C2_BlogTopicIsX ==
    \A x \in PlainTopics :
        normalize(textIn) = "write a blog about " \o Lower(x) =>
            /\ textOp = "classify" => textOut.intent = "text_generation"
            /\ textOp = "text_slots" =>
                   /\ textOut.content_type = "blog_article"
                   /\ textOut.topic = Str(Strip(Lower(x)))

\* index of the first phase-1 pattern of the intent that matches t, 0 if none
FirstMatching(t, command_type) ==
    LET M == {j \in 1..Len(patterns(command_type)) : re_search(patterns(command_type)[j], t).present}
    IN  IF M = {} THEN 0 ELSE CHOOSE j \in M : \A q \in M : j <= q

SunsetCommand == "generate a sunset over mountains"

GeneratePatternIndex == 6

\* C3 as stated: the description extracted from "generate a sunset over
\* mountains" is "sunset over mountains".
C3_SunsetTopic ==
    (textOp = "extract_image" /\ normalize(textIn) = SunsetCommand) =>
        textOut.topic = Str("sunset over mountains")

\* C3 amended: `generate (.+)` is the first image pattern that matches and
\* its trimmed capture, "a sunset over mountains", is the description.
C3_SunsetTopicWithArticle ==
    (textOp = "extract_image" /\ normalize(textIn) = SunsetCommand) =>
        /\ FirstMatching(SunsetCommand, "image") = GeneratePatternIndex
        /\ patterns("image")[GeneratePatternIndex] = <<"generate ">>
        /\ textOut.topic = Str("a sunset over mountains")

C3_Witness ==
    /\ textOp = "extract_image"
    /\ normalize(textIn) = SunsetCommand
    /\ textOut.topic.present

(***************************************************************************)
(* Properties of the fallback chains                                       *)
(***************************************************************************)
\* the endpoints of a chain in the order the chain reaches them
RECURSIVE FlatOrder(_)
FlatOrder(c) ==
    IF c = "gs_text" THEN <<"gs.gemini">> \o HFTextModels \o <<"gs.aiml">>
    ELSE IF c = "gs_image" THEN <<"gs.gemini_image", "gs.deepai">> \o HFImageModels \o <<"gs.replicate">>
    ELSE IF c = "text_ai"
    THEN <<"text_ai.gemini", "text_ai.openai", "text_ai.huggingface", "text_ai.aiml">>
    ELSE IF c = "multi_text"
    THEN <<"multi.openrouter", "multi.deepseek">> \o FlatOrder("gs_text") \o <<"multi.huggingface">>
    ELSE IF c = "multi_image"
    THEN MultiHFImageModels \o <<"multi.openrouter_image", "multi.together_image">>
         \o FlatOrder("gs_image")
    ELSE << >>

IsLive(ep) == ep \in Live(chain)

\* the endpoints the invocation may use, in chain order
LiveOrder == SelectSeq(FlatOrder(chain), IsLive)

\* the request to ep yields content (Replicate's step has no way to)
Produces(ep) == net[ep] = "ok" /\ ep # "gs.replicate"

\* position in LiveOrder of the first endpoint that yields content, 0 if none
FirstProducer ==
    LET P == {i \in 1..Len(LiveOrder) : Produces(LiveOrder[i])} IN
    IF P = {} THEN 0 ELSE CHOOSE i \in P : \A q \in P : i <= q

\* the result tells the caller that the invocation failed
IsFailure(r) ==
    IF r.ret.shape = "str" THEN r.ret.payload = Apology
    ELSE r.ret.shape \in {"tuple", "dict"} /\ ~r.ret.success

SupportedCall == chain # "idle" /\ (chain = "text_ai" => arg \in content_templates)

\* C5: providers are tried in the fixed order and the chain stops at the
\* first success: every credentialed provider before the first one that
\* succeeds was called, the result is that provider's output, nothing after
\* it is called.
C5_StopsAtFirstSuccess ==
    SupportedCall =>
        IF FirstProducer = 0 THEN calls = LiveOrder
        ELSE /\ calls = SubSeq(LiveOrder, 1, FirstProducer)
             /\ ~IsFailure(res)
             /\ res.ret.payload = LiveOrder[FirstProducer]

\* every provider of the chain lacks its credential
AllLackCredential ==
    IF chain = "gs_text"
    THEN {"GEMINI_API_KEY", "HUGGINGFACE_API_KEY", "AIML_API_KEY"} \cap env = {}
    ELSE IF chain = "gs_image"
    THEN {"GEMINI_API_KEY", "DEEPAI_API_KEY", "HUGGINGFACE_API_KEY", "REPLICATE_API_KEY"} \cap env = {}
    ELSE IF chain = "text_ai"
    THEN {"GEMINI_API_KEY", "OPENAI_API_KEY", "HUGGINGFACE_API_KEY", "AIML_API_KEY"} \cap env = {}
    ELSE IF chain = "multi_text"
    THEN {"openrouter", "deepseek", "gemini", "huggingface"} \cap providerKeys = {}
    ELSE IF chain = "multi_image"
    THEN {"huggingface", "openrouter", "together", "gemini"} \cap providerKeys = {}
    ELSE FALSE

NothingProduced == \A i \in 1..Len(calls) : ~Produces(calls[i])

\* C7: when every attempted provider fails the invocation returns a failure
\* result, does not raise, and never reports success.
C7_AllFailedIsFailure ==
    (chain # "idle" /\ NothingProduced) =>
        /\ ~res.raised
        /\ IsFailure(res)

Requests(provider) == {i \in 1..Len(calls) : ProviderOf(calls[i]) = provider}

\* C8 as stated: no provider receives a second request in one invocation.
C8_ProviderAtMostOnce ==
    chain # "idle" => \A i, j \in 1..Len(calls) : i < j => ProviderOf(calls[i]) # ProviderOf(calls[j])

HFModelsPerStep == 3

\* the Hugging Face requests one invocation of the chain can issue: one per
\* model of each Hugging Face step it reaches
MaxHFRequests(c) ==
    IF c \in {"gs_text", "gs_image"} THEN HFModelsPerStep
    ELSE IF c = "text_ai" THEN 1
    ELSE IF c = "multi_text" THEN 1 + HFModelsPerStep
    ELSE IF c = "multi_image" THEN HFModelsPerStep + HFModelsPerStep
    ELSE 0

\* C8 amended: no endpoint (provider and model of one service) is requested
\* twice and every provider but Hugging Face gets at most one request;
\* Hugging Face gets one request per model of each of its steps.
C8_EndpointAtMostOnce ==
    chain # "idle" =>
        /\ \A i, j \in 1..Len(calls) : i < j => calls[i] # calls[j]
        /\ \A i, j \in 1..Len(calls) :
               (i < j /\ ProviderOf(calls[i]) = ProviderOf(calls[j])) =>
                   ProviderOf(calls[i]) = "huggingface"
        /\ Cardinality(Requests("huggingface")) <= MaxHFRequests(chain)

C8_Witness ==
    /\ chain = "multi_image"
    /\ Cardinality(Requests("huggingface")) = HFModelsPerStep + HFModelsPerStep
    /\ \E i \in 1..Len(calls) : calls[i] = "gs.huggingface.sd-v1-4"

(***************************************************************************)
(* Properties of process_command                                           *)
(***************************************************************************)
\* a handler has produced the result of the command
Handled_ == pc \in {"update", "speak", "done"} /\ command_in.isStr

\* the intent the command was classified as and the slot its handler extracted
Intent == textOut.intent

Slot == textOut.topic

NeedsTopic == {"facebook_post", "create_image", "text_generation"}

\* the messages that ask the user for the missing topic
AskForTopic ==
    {"I couldn't understand what you want to post about. Please specify a topic.",
     "Please describe what image you want me to generate."}
    \cup {"Please tell me what " \o Spaced(ct) \o " you want me to write about." :
              ct \in content_templates}

\* C4: a facebook_post, create_image or text_generation command whose topic
\* is absent fails with a message asking for the topic and command_type equal
\* to the intent, and nothing is requested, generated or published.
C4_AbsentTopicShortCircuits ==
    (Handled_ /\ Intent \in NeedsTopic /\ Falsy(Slot)) =>
        /\ ~result.success
        /\ result.message \in AskForTopic
        /\ result.command_type = Intent
        /\ calls = << >>
        /\ published = << >>
        /\ posts = << >>

C4_Witness ==
    /\ pc = "done"
    /\ command_text = "post"
    /\ env # {}
    /\ result.command_type = "facebook_post"
    /\ ~result.success

NeedsGeneration == {"general_query", "text_generation", "create_image"}

\* C9: a general_query, text_generation or create_image command for which no
\* provider produced content has success=false.
C9_ChainFailureFails ==
    (Handled_ /\ Intent \in NeedsGeneration /\ NothingProduced) => ~result.success

\* C10: process_command never raises; its result carries success, message
\* and command_type, and for an exception caught at the boundary it is a
\* failure whose message carries the exception text.
C10_NeverRaises ==
    /\ ~raised
    /\ pc \in {"update", "speak", "done"} =>
           /\ result.success \in BOOLEAN
           /\ result.message # ""
           /\ result.command_type \in Intents \cup {"error"}
    /\ (pc \in {"speak", "done"} /\ ~command_in.isStr) =>
           /\ ~result.success
           /\ result.command_type = "error"
           /\ In(AttributeError, result.message)

C10_Witness ==
    /\ pc = "done"
    /\ ~command_in.isStr
    /\ In(AttributeError, result.message)
    /\ spoken = None

\* C11: persistence is advisory: a failed database write never turns a
\* command that did its work into a failure; a Facebook post that was
\* published is reported with success=true.
C11_PublishedIsSuccess ==
    (Handled_ /\ Intent = "facebook_post" /\ published # << >>) => result.success

(***************************************************************************)
(* Properties of the auto-reply passes                                     *)
(***************************************************************************)
\* the items whose handling the pass has finished
Settled(p) ==
    LET st == pass[p] IN
    {j \in 1..Len(st.processed) : ~(st.pc = "log" /\ j = st.i)}

RowsOf(p, item) == {r \in autoReplyLog : r.by = p /\ r.item = item}

\* C12: a pass appends exactly one record per item it processed, with status
\* 'sent' when the send succeeded and 'failed' when it did not.
C12_OneRecordPerItem ==
    \A p \in Passes : \A j \in Settled(p) :
        LET o == pass[p].processed[j] IN
        /\ Cardinality(RowsOf(p, o.item)) = 1
        /\ \A r \in RowsOf(p, o.item) : r.status = o.status

\* C13: a failure while handling one item never aborts the pass: a finished
\* pass has handled every item of its batch and returns all the outcomes.
C13_PassNeverAborts ==
    \A p \in Passes :
        pass[p].pc = "done" =>
            /\ Len(pass[p].processed) = Len(pass[p].batch)
            /\ pass[p].ret = pass[p].processed

\* C14: the record of an item is written only after the send attempt for
\* that item has returned.
C14_RecordAfterSend ==
    \A r \in autoReplyLog : Attempt(r.platform, r.item, r.by) \in attempted

C14_Witness ==
    /\ pass["monitor"].pc = "log"
    /\ Attempt("email", 1, "monitor") \in attempted
    /\ RowsOf("monitor", 1) = {}
    /\ \E r \in autoReplyLog : r.platform = "whatsapp"

\* C15: no email is replied to twice and no email gets two records, also
\* when the scheduled pass and the manual pass interleave.
C15_OncePerEmail ==
    \A item \in Items :
        /\ Cardinality({d \in delivered : d.platform = "email" /\ d.item = item}) <= 1
        /\ Cardinality({r \in autoReplyLog : r.platform = "email" /\ r.item = item}) <= 1

(***************************************************************************)
(* Properties of configuration updates                                     *)
(***************************************************************************)
\* the key a request to the endpoint is authorised with
CredentialOf(ep) ==
    LET P == ProviderOf(ep) IN
    IF P = "openai" THEN "OPENAI_API_KEY"
    ELSE IF P = "aiml" THEN "AIML_API_KEY"
    ELSE IF P = "deepai" THEN "DEEPAI_API_KEY"
    ELSE IF P = "replicate" THEN "REPLICATE_API_KEY"
    ELSE ProviderKey(P)

\* the endpoints of the chain's own steps (not those of a nested chain)
\* that key k gives access to
OwnEndpoints(c, k) ==
    {FlatOrder(c)[j] : j \in {q \in 1..Len(FlatOrder(c)) :
        /\ CredentialOf(FlatOrder(c)[q]) = k
        /\ (c \in {"multi_text", "multi_image"} => IsAt(FlatOrder(c)[q], "multi.", 1))}}

\* C16: a key set by update_config counts from the next invocation on: a
\* chain that went through all its providers has called the provider of
\* every updated key.
C16_UpdatedKeyIsUsed ==
    (SupportedCall /\ IsFailure(res)) =>
        \A k \in updated : OwnEndpoints(chain, k) \subseteq Range(calls)

(***************************************************************************)
(* Properties of speech                                                    *)
(***************************************************************************)
\* C17: speech is fire-and-forget: speak returns while the playback thread
\* is still to run (or was never started), and the end of the playback,
\* successful or not, leaves the returned result as it was.
C17_SpeechFireAndForget ==
    [][/\ (pc = "speak" /\ pc' = "done") =>
              (playback' \in {"none", "running"} /\ result' = result)
       /\ (playback = "running" /\ playback' # "running") =>
              (pc = "done" /\ pc' = "done" /\ result' = result /\ raised' = raised)]_vars

C17_Witness ==
    pc = "done" /\ playback = "failed" /\ result.success /\ spoken = Str(result.message)

SelectableTypes ==
    {"social_post", "blog_article", "email_reply", "creative_story", "review", "tutorial",
     "product_description", "news_article"}

\* the failure messages for a content type without a template
UnsupportedMessages ==
    {"I couldn't generate the " \o Spaced(c) \o ": Unsupported content type" :
         c \in SelectableTypes \cup {"blog", "email", "story", "product", "news"}}

\* C19: the content type selected for a text_generation command has an entry
\* in content_templates, and the command's result is never the
\* 'Unsupported content type' failure.
C19_SelectedTypeHasTemplate ==
    (Handled_ /\ Intent = "text_generation") =>
        /\ textOut.content_type \in SelectableTypes \cap content_templates
        /\ result.message \notin UnsupportedMessages

C19_Witness ==
    /\ Handled_ /\ Intent = "text_generation" /\ textOut.content_type = "news_article"
    /\ Slot.present /\ result.success

(***************************************************************************)
(* Termination                                                             *)
(***************************************************************************)
\* C20: every process_command invocation eventually returns: no call it
\* issues blocks for ever.
C20_CommandReturns == (pc = "log") ~> (pc = "done")

(***************************************************************************)
(* Properties of the content sub-type                                      *)
(***************************************************************************)
\* the sub-type table of the specification, in evaluation order
TypeRules ==
    << [type |-> "blog_article",        kws |-> {"blog", "article"}],
       [type |-> "email_reply",         kws |-> {"email", "reply"}],
       [type |-> "creative_story",      kws |-> {"story"}],
       [type |-> "review",              kws |-> {"review"}],
       [type |-> "tutorial",            kws |-> {"tutorial", "guide"}],
       [type |-> "product_description", kws |-> {"product"}],
       [type |-> "news_article",        kws |-> {"news"}] >>

TypeHits(t) == {r \in 1..Len(TypeRules) : \E k \in TypeRules[r].kws : In(k, t)}

\* C21: the content sub-type is that of the first rule, in the fixed order,
\* one of whose keywords occurs in the command, social_post when none does;
\* a command with both "blog" and "email" is a blog_article.
C21_FirstTypeWins ==
    textOp = "text_slots" =>
        LET t == normalize(textIn)
            H == TypeHits(t)
        IN  /\ H = {} => textOut.content_type = "social_post"
            /\ H # {} => \E r \in H : (\A q \in H : r <= q) /\ textOut.content_type = TypeRules[r].type
            /\ (In("blog", t) /\ In("email", t)) => textOut.content_type = "blog_article"

C21_Witness ==
    /\ textOp = "text_slots"
    /\ In("blog", normalize(textIn)) /\ In("email", normalize(textIn))
    /\ textOut.content_type = "blog_article"

(***************************************************************************)
(* Properties of the command history                                       *)
(***************************************************************************)
\* the row as LogCommand stores it
Created(row) ==
    /\ row.present /\ row.status = "processing" /\ row.command_type = "unknown"
    /\ row.result = "" /\ ~row.completed_at /\ row.command_text = command_text

\* the row as the accepted update leaves it
Completed(row) ==
    /\ row.present /\ row.completed_at
    /\ row.status = (IF result.success THEN "completed" ELSE "failed")
    /\ row.result = result.message
    /\ row.command_type = result.command_type

\* C22 as stated: after process_command has returned no record is in status
\* 'processing'.
C22_NoneLeftProcessing ==
    (pc = "done" /\ command_log.present) => command_log.status # "processing"

\* C22, amended: the record is created once, in status 'processing', before
\* the command is classified; it changes once more only, by the update the
\* store accepts, which sets completed/failed by the result's success, the
\* message, the command type and the completion time; after the return it
\* is either completed in this way or still as it was created.
C22_RecordLifecycle ==
    /\ [][command_log' # command_log =>
              \/ pc = "log" /\ ~command_log.present /\ Created(command_log')
              \/ pc = "update" /\ Created(command_log) /\ Completed(command_log')]_vars
    /\ []((pc \in {"speak", "done"} /\ command_log.present) =>
              (Created(command_log) \/ Completed(command_log)))

C22_Witness ==
    /\ pc = "done" /\ command_log.present /\ command_log.status = "failed"
    /\ ~result.success /\ command_log.completed_at

\* the steps of one process_command run: received (idle), the history
\* record (log), classification, extraction and generation inside the one
\* handler (classify), the record update (update), the speech hand-off
\* (speak), returned (done); a command that is not a string goes from
\* received to the speech hand-off of the error
Edges == {<<"idle", "log">>, <<"idle", "speak">>, <<"log", "classify">>,
          <<"classify", "update">>, <<"update", "speak">>, <<"speak", "done">>}

\* C23: a process_command run goes through its stages in order and never
\* back: the history record is created before classification, the one
\* handler classifies, extracts and generates, generation needs the
\* extracted slot where the intent has one, and the record update and the
\* speech hand-off come after the handler has finished.
C23_StagesInOrder ==
    /\ [][/\ pc' # pc => <<pc, pc'>> \in Edges
          /\ command_log'.present # command_log.present => pc = "log"
          /\ (textOut' # textOut \/ calls' # calls \/ published' # published) =>
                 (pc = "classify" /\ pc' = "update")
          /\ (command_log' # command_log /\ command_log.present) => pc = "update"
          /\ spoken' # spoken => pc = "speak"]_vars
    /\ []((Handled_ /\ Intent \in NeedsTopic /\ (calls # << >> \/ published # << >>)) =>
              Slot.present)

C23_Witness ==
    /\ pc = "done" /\ command_log.status = "completed" /\ Intent = "text_generation"
    /\ Slot.present /\ calls # << >> /\ spoken.present

(***************************************************************************)
(* Properties of the texts with a canned fallback                          *)
(***************************************************************************)
\* the endpoints of generate_text_response that hold a credential, in order
TextOrder == SelectSeq(FlatOrder("gs_text"), LAMBDA ep : ep \in Live("gs_text"))

\* the canned texts of the invocation
Canned == IF chain = "gs_post" THEN Range(fallback_posts(arg)) ELSE Range(fallback_replies)

\* C24: generate_facebook_post and generate_auto_reply return a non-empty
\* text that is not the apology: the text of a provider that answered, or,
\* when none did, one of the three canned texts; they do not raise.
C24_UsableText ==
    chain \in {"gs_post", "gs_reply"} =>
        /\ ~res.raised
        /\ res.ret.shape = "str"
        /\ res.ret.payload # ""
        /\ ~IsAt(res.ret.payload, "I'm currently unable", 1)
        /\ IF \E i \in 1..Len(TextOrder) : net[TextOrder[i]] = "ok"
           THEN res.ret.payload \in {ep \in Range(calls) : net[ep] = "ok"}
           ELSE res.ret.payload \in Canned /\ Cardinality(Canned) = 3

C24_Witness ==
    /\ chain = "gs_reply" /\ calls # << >> /\ \A ep \in Endpoints : net[ep] # "ok"
    /\ res.ret.payload = fallback_replies[2]

(***************************************************************************)
(* Properties of extract_topic_from_command                                *)
(***************************************************************************)
\* the text after the first occurrence of keyword kw in t, trimmed and with
\* one leading stop-word removed
Remainder(t, kw) ==
    StripStopWord(Strip(From(t, Find(t, kw, 1) + Len(kw))),
                  <<"of", "about", "on", "for">>, 1)

\* the keywords of the intent that occur in t with a non-empty remainder
Yielding(t, command_type) ==
    {k \in 1..Len(keywords(command_type)) :
        /\ Find(t, keywords(command_type)[k], 1) # 0
        /\ Remainder(t, keywords(command_type)[k]) # ""}

ExtractedType == IF textOp = "extract_post" THEN "post" ELSE "image"

\* C25, phases: the topic is the trimmed capture of the first listed
\* pattern that matches; when no pattern matches it is the remainder of the
\* first listed keyword that has a non-empty one, and absent without one.
C25_Phases ==
    textOp \in {"extract_post", "extract_image"} =>
        LET t == normalize(textIn)
            j == FirstMatching(t, ExtractedType)
            Y == Yielding(t, ExtractedType)
        IN  /\ j # 0 =>
                textOut.topic = Str(Strip(re_search(patterns(ExtractedType)[j], t).text))
            /\ (j = 0 /\ Y # {}) =>
                textOut.topic =
                    Str(Remainder(t, keywords(ExtractedType)[CHOOSE k \in Y : \A q \in Y : k <= q]))
            /\ (j = 0 /\ Y = {}) => textOut.topic = None

\* C25 as stated: the two phases, and a present topic is a non-empty string
\* without surrounding whitespace.
C25_TwoPhaseExtraction ==
    /\ C25_Phases
    /\ (textOp \in {"extract_post", "extract_image"} /\ textOut.topic.present) =>
           /\ textOut.topic.text # ""
           /\ Strip(textOut.topic.text) = textOut.topic.text

(***************************************************************************)
(* Properties of the result of generate_content                            *)
(***************************************************************************)
\* C26: a content type without a template gives {success: false, error}
\* with the available types and no provider is called; with a template
\* the result is a success with content, hashtags, provider and word_count
\* whose provider is the one that answered, or {success: false, error}.
C26_UnsupportedTypeCallsNobody ==
    \A i \in DOMAIN generated :
        IF request.content_type \notin content_templates
        THEN /\ generated[i] =
                    [success |-> FALSE,
                     error |-> "Unsupported content type: " \o request.content_type,
                     available_types |-> available_types]
             /\ Range(available_types) = content_templates
             /\ calls = << >>
        ELSE \/ /\ generated[i].success
                /\ {"content", "hashtags", "provider", "word_count"} \subseteq DOMAIN generated[i]
                /\ generated[i].word_count = WordCount(generated[i].content, 1)
                /\ calls # << >>
                /\ calls[Len(calls)] = "text_ai." \o generated[i].provider
                /\ net[calls[Len(calls)]] = "ok"
                /\ \A k \in 1..(Len(calls) - 1) : net[calls[k]] # "ok"
             \/ /\ ~generated[i].success
                /\ DOMAIN generated[i] = {"success", "error"}
                /\ \A k \in DOMAIN calls : net[calls[k]] # "ok"

\* an unsupported type is asked for while a provider has its key and answers
C26_Witness ==
    /\ generated # << >>
    /\ request.content_type \notin content_templates
    /\ \E j \in DOMAIN provider_order :
           /\ TextAIKey(provider_order[j]) \in env
           /\ net["text_ai." \o provider_order[j]] = "ok"

(***************************************************************************)
(* Properties of the auto-reply rule of the classifier                     *)
(***************************************************************************)
EarlierThanAutoReply == {"facebook_post", "create_image", "text_generation"}

\* C27: a command is classified auto_reply_status only when it contains
\* "whatsapp" or "messages"; a command that contains "auto reply" or
\* "email" goes to text_generation or to a rule before it.
C27_AutoReplyOnlyByWhatsappOrMessages ==
    textOp = "classify" =>
        LET t == normalize(textIn) IN
        /\ textOut.intent = "auto_reply_status" => (In("whatsapp", t) \/ In("messages", t))
        /\ (In("auto reply", t) \/ In("email", t)) => textOut.intent \in EarlierThanAutoReply

\* a command with "auto reply" and "whatsapp" is taken by the text rule
C27_Witness ==
    /\ textOp = "classify"
    /\ In("auto reply", normalize(textIn)) /\ In("whatsapp", normalize(textIn))
    /\ textOut.intent = "text_generation"

(***************************************************************************)
(* Properties of the image reported for a Facebook post                    *)
(***************************************************************************)
ImageSuffix == " with an AI-generated image"

\* the result says that the post carries an image
ReportsImage ==
    \/ result.image_path
    \/ IsAt(result.message, ImageSuffix, Len(result.message) - Len(ImageSuffix) + 1)

\* C28: a successful facebook_post reports an image (the message suffix, a
\* non-null image_path) only if the image was generated and the post was
\* published as a photo post; a post that fell back to text reports none.
C28_ImageReportedOnlyIfPublished ==
    (Handled_ /\ Intent = "facebook_post" /\ result.success /\ ReportsImage) =>
        /\ published # << >>
        /\ published[Len(published)].kind = "photo"

(***************************************************************************)
(* Properties of the statuses process_auto_replies reports                 *)
(***************************************************************************)
\* C29: for every email of a pass the reported status agrees with what
\* happened: 'sent' only if the reply was delivered and the original was
\* marked read, 'failed' only if no reply was delivered.
C29_StatusAgrees ==
    \A p \in EmailPasses : \A j \in DOMAIN pass[p].processed :
        LET o == pass[p].processed[j] IN
        /\ o.status = "sent" =>
               /\ Attempt("email", o.item, p) \in delivered
               /\ o.item \notin unread
        /\ o.status = "failed" => Attempt("email", o.item, p) \notin delivered

(***************************************************************************)
(* Properties of set_primary_provider                                      *)
(***************************************************************************)
\* everything a set_primary_provider call must leave alone
ButCurrentProvider ==
    <<env, providerKeys, geminiClient, updated, net, calls, textIn, textOp, textOut,
      cmdVars, replyVars, contentVars>>

\* C30: set_primary_provider(name) changes current_provider and nothing
\* else, and only when name is registered (it returns False otherwise);
\* the registry stays as it is and generate_text and generate_image go on
\* trying the providers in their fixed order.
C30_OnlyCurrentProvider ==
    /\ [][chain' = "set_primary" =>
              /\ UNCHANGED ButCurrentProvider
              /\ IF arg' \in Providers
                 THEN current_provider' = arg' /\ res'.ret.success
                 ELSE current_provider' = current_provider /\ ~res'.ret.success]_vars
    /\ [][current_provider' # current_provider =>
              (chain' = "set_primary" /\ arg' \in Providers)]_vars
    /\ [](chain \in {"multi_text", "multi_image"} =>
              \E k \in 0..Len(LiveOrder) : calls = SubSeq(LiveOrder, 1, k))

\* with gemini made the primary provider generate_text still starts at
\* openrouter
C30_Witness ==
    /\ current_provider = "gemini"
    /\ chain = "multi_text"
    /\ {"gemini", "openrouter"} \subseteq providerKeys
    /\ calls # << >>
    /\ calls[1] = "multi.openrouter"

====
